---------------------------- MODULE Spec2Model ----------------------------
(***************************************************************************)
(* A model of zap-ecs (github.com/lggomez/zap-ecs): the ECS logger that    *)
(* classifies the zap fields of one log call into buckets, merges tags,    *)
(* encodes every bucket as one nested object and hands the final field     *)
(* list to the underlying zap logger.                                      *)
(*                                                                         *)
(* Representation of Go values:                                            *)
(*  - a field key is the sequence strings.Split(key, ".") yields, so       *)
(*    "event.action" is <<"event", "action">> and "log." is <<"log", "">>. *)
(*    The map between keys and non-empty sequences of dot-free segments is *)
(*    one to one; joining the segments with dots gives the string back;    *)
(*  - an interface{} value is a record [t |-> dynamic type, v |-> value],  *)
(*    the nil interface being Nil;                                         *)
(*  - a header name is a sequence of characters (strings.ToLower works     *)
(*    character by character); every other string is a TLA+ string;        *)
(*  - an http.Header is a sequence of [name, values] entries with distinct *)
(*    names: the entries are the map, their order is the order in which    *)
(*    this run's `range` visits the map (Go leaves that order open).       *)
(***************************************************************************)
EXTENDS Integers, Sequences, FiniteSets, TLC

VARIABLES
    l,              \* the zapECSLogger: baseLoggerField, baseTags, baseLabels, logger
    pc,             \* where the caller is: "ready", "returned", "panicked", "exited"
    fields,         \* the fields ...zap.Field argument of the call
    lvl,            \* the Level the called method passes to encodeFields
    filteredFields, \* encodeFields' result in Debug..Fatal
    logger,         \* what l.logger (the sink) received and wrote in the last call
    headers,        \* the caller's header maps, as they are now
    val,            \* the []http.Header argument, as SanitizeHeaders was given it
    plainHeaders,   \* SanitizeHeaders' result
    msg,            \* the msg argument of the call
    runs,           \* the runs made on the same input so far: input and output
    procs           \* the goroutines running a call at the same time

vars ==
    <<l, pc, fields, lvl, filteredFields, logger, headers, val, plainHeaders,
      msg, runs, procs>>

----------------------------------------------------------------------------
(* Bounds of the model *)

\* longest argument list of a log call under Spec
MaxFields == 3
\* longest argument list of a log call under SpecHTTP
MaxHTTPFields == 3
\* longest argument list of a log call under SpecKinds
MaxKindFields == 2
\* most header entries (over all the header maps) given to SanitizeHeaders
MaxEntries == 3
\* most fields in one log call of SpecLabels
MaxLabelFields == 3
\* most fields in one log call of SpecMismatch
MaxMismatchFields == 3
\* most runs on the same input
MaxRuns == 2
\* most fields in one log call of SpecRepeat
MaxRepeatFields == 2
\* most log calls running at the same time
MaxGoroutines == 2
\* most fields in one log call of SpecSeverities
MaxSeverityFields == 2
\* most fields in one log call of SpecLeaves
MaxLeafFields == 2
\* most fields in one log call of SpecReduced
MaxReducedFields == 2
\* the largest UnixNano of the model's clock
MaxTimeInt64 == 1000

----------------------------------------------------------------------------
(* ecs/ecs_keys.go *)

FieldLabels == <<"labels">>
FieldTags == <<"tags">>
FieldLabelApplication == <<"application">>
FieldLabelService == <<"service">>
FieldLabelEnvironment == <<"environment">>
FieldLabelLibVersion == <<"lib_version">>
FieldLabelLibLanguage == <<"lib_language">>
FieldLabelPodName == <<"pod_name">>
FieldLabelNodeName == <<"node_name">>
FieldLogger == <<"log", "logger">>
FieldLogLevel == <<"log", "level">>
FieldServiceName == <<"service", "name">>
FieldErrorMessage == <<"error", "message">>
FieldStackTrace == <<"error", "stack_trace">>
FieldErrorType == <<"error", "type">>
FieldEventAction == <<"event", "action">>
FieldEventKind == <<"event", "kind">>
FieldEventCategory == <<"event", "category">>
FieldEventModule == <<"event", "module">>
FieldEventType == <<"event", "type">>
FieldEventOriginal == <<"event", "original">>
FieldEventOutcome == <<"event", "outcome">>
FieldTraceID == <<"trace", "id">>
FieldHTTPRequestBodyContent == <<"http", "request", "body", "content">>
FieldHTTPRequestMethod == <<"http", "request", "method">>
FieldHTTPRequestBodyHeaders == <<"http", "request", "body", "headers">>
FieldHTTPRequestReferrer == <<"http", "request", "referrer">>
FieldHTTPResponseBodyContent == <<"http", "response", "body", "content">>
FieldHTTPResponseStatusCode == <<"http", "response", "status_code">>
FieldHTTPResponseBodyReferrer == <<"http", "response", "body", "referrer">>

\* FieldEventKind is a constant but not a key of the map, as in the source.
ecsKeysMap ==
    { FieldTags, FieldLogger, FieldLogLevel, FieldLabelApplication,
      FieldLabelService, FieldLabelEnvironment, FieldLabelLibVersion,
      FieldLabelLibLanguage, FieldLabelPodName, FieldLabelNodeName,
      FieldServiceName, FieldErrorMessage, FieldStackTrace, FieldErrorType,
      FieldEventAction, FieldEventCategory, FieldEventModule, FieldEventType,
      FieldEventOriginal, FieldEventOutcome, FieldTraceID,
      FieldHTTPRequestBodyContent, FieldHTTPRequestMethod,
      FieldHTTPRequestBodyHeaders, FieldHTTPRequestReferrer,
      FieldHTTPResponseBodyContent, FieldHTTPResponseStatusCode,
      FieldHTTPResponseBodyReferrer }

IsECSFieldName(fieldName) == fieldName \in ecsKeysMap

\* The prefixes end with a dot: their last segment is empty.
LogPrefix == <<"log", "">>
LogBaseLevelKey == <<"log">>
HTTPPrefix == <<"http", "">>
HTTPBaseLevelKey == <<"http">>
EventPrefix == <<"event", "">>
EventBaseLevelKey == <<"event">>
ErrorPrefix == <<"error", "">>
ErrorBaseLevelKey == <<"error">>
TracePrefix == <<"trace", "">>
TraceBaseLevelKey == <<"trace">>

----------------------------------------------------------------------------
(* Strings *)

RECURSIVE Join(_, _)
\* strings.Join(elems, sep)
Join(elems, sep) ==
    IF Len(elems) = 0 THEN ""
    ELSE IF Len(elems) = 1 THEN elems[1]
    ELSE elems[1] \o sep \o Join(Tail(elems), sep)

\* strings.HasPrefix(s, prefix) for a prefix that ends with a dot: the
\* segments of the prefix before its last dot are the first segments of s,
\* and s goes on after that dot (with any segment, the empty one included).
HasPrefix(s, prefix) ==
    /\ Len(s) >= Len(prefix)
    /\ \A i \in 1..(Len(prefix) - 1) : s[i] = prefix[i]

----------------------------------------------------------------------------
(* zap.Field and the interface{} values it carries (go.uber.org/zap) *)

Nil == [t |-> "nil", v |-> <<>>]

Field(key, type, integer, string, interface) ==
    [Key |-> key, Type |-> type, Integer |-> integer, String |-> string,
     Interface |-> interface]

\* zap.String
zapString(key, s) == Field(key, "StringType", 0, s, Nil)

\* zap.Strings: an array field over a stringArray
zapStrings(key, ss) ==
    Field(key, "ArrayMarshalerType", 0, "", [t |-> "stringArray", v |-> ss])

\* zap.Object
zapObject(key, marshaler) == Field(key, "ObjectMarshalerType", 0, "", marshaler)

\* zap.Reflect
zapReflect(key, x) == Field(key, "ReflectType", 0, "", x)

\* zap.Any: a value of none of the types it knows goes to zap.Reflect
\* ([]http.Header and json.RawMessage are such values).
zapAny(key, x) ==
    IF x.t = "string" THEN zapString(key, x.v)
    ELSE IF x.t = "[]string" THEN zapStrings(key, x.v)
    ELSE zapReflect(key, x)

\* A float64 is the tagged bit pattern it is stored as.
Float64frombits(n) == <<"float64", n>>

Float32frombits(n) == <<"float32", n>>

\* zap.Bool: the value is carried in Integer (1 for true), Interface is nil
zapBool(key, b) == Field(key, "BoolType", IF b THEN 1 ELSE 0, "", Nil)

\* zap.Int64, zap.Int8, zap.Uint32: the value is carried in Integer
zapInt64(key, n) == Field(key, "Int64Type", n, "", Nil)

zapInt8(key, n) == Field(key, "Int8Type", n, "", Nil)

zapUint32(key, n) == Field(key, "Uint32Type", n, "", Nil)

\* zap.Float64, zap.Float32: the bits of the value are carried in Integer
zapFloat64(key, x) == Field(key, "Float64Type", x[2], "", Nil)

zapFloat32(key, x) == Field(key, "Float32Type", x[2], "", Nil)

\* zap.Duration: the nanoseconds are carried in Integer
zapDuration(key, d) == Field(key, "DurationType", d, "", Nil)

\* The instants that UnixNano represents in an int64: a time of the model is
\* [nanos, loc]; instants out of the range have nanos outside MinTimeInt64 ..
\* MaxTimeInt64 (the int64 range, scaled down).
MinTimeInt64 == -MaxTimeInt64 - 1

\* zap.Time: UnixNano in Integer and the location in Interface, or the
\* time.Time itself in Interface when UnixNano cannot represent it
zapTime(key, time) ==
    IF time.nanos < MinTimeInt64 \/ time.nanos > MaxTimeInt64
    THEN Field(key, "TimeFullType", 0, "", [t |-> "time.Time", v |-> time])
    ELSE Field(key, "TimeType", time.nanos, "",
               [t |-> "*time.Location", v |-> <<time.loc>>])

\* zap.Binary, zap.ByteString
zapBinary(key, bytes) == Field(key, "BinaryType", 0, "", [t |-> "[]byte", v |-> bytes])

zapByteString(key, bytes) ==
    Field(key, "ByteStringType", 0, "", [t |-> "[]byte", v |-> bytes])

\* zap.Skip
zapSkip == Field(<<"">>, "SkipType", 0, "", Nil)

\* zap.NamedError (zap.Error is NamedError under the key "error"): a nil
\* error gives zap.Skip()
zapNamedError(key, err) ==
    IF err.t = "nil" THEN zapSkip ELSE Field(key, "ErrorType", 0, "", err)

\* zap.Namespace
zapNamespace(key) == Field(key, "NamespaceType", 0, "", Nil)

\* zap.Complex128: a kind EncodeFieldInterface has no case for
zapComplex128(key, c) ==
    Field(key, "Complex128Type", 0, "", [t |-> "complex128", v |-> c])

\* ecs.Tags
ecsTags(ss) == Field(FieldTags, "SkipType", 0, "", [t |-> "[]string", v |-> ss])

----------------------------------------------------------------------------
(* Level: the name of each severity, as Level.String gives it *)

Levels ==
    {"DebugLevel", "InfoLevel", "WarnLevel", "ErrorLevel", "PanicLevel",
     "FatalLevel"}

\* The order of the severities
LevelRank(level) ==
    CASE level = "DebugLevel" -> 0
      [] level = "InfoLevel" -> 1
      [] level = "WarnLevel" -> 2
      [] level = "ErrorLevel" -> 3
      [] level = "PanicLevel" -> 4
      [] level = "FatalLevel" -> 5

LevelString(level) ==
    CASE level = "DebugLevel" -> "debug"
      [] level = "InfoLevel" -> "info"
      [] level = "WarnLevel" -> "warn"
      [] level = "ErrorLevel" -> "error"
      [] level = "PanicLevel" -> "panic"
      [] level = "FatalLevel" -> "fatal"

----------------------------------------------------------------------------
(* ecs/fields_ecs.go: header redaction *)

\* strings.ToLower, character by character
ToLower(chars) ==
    LET UpperLetters ==
            <<"A", "B", "C", "D", "E", "F", "G", "H", "I", "J", "K", "L", "M",
              "N", "O", "P", "Q", "R", "S", "T", "U", "V", "W", "X", "Y", "Z">>
        LowerLetters ==
            <<"a", "b", "c", "d", "e", "f", "g", "h", "i", "j", "k", "l", "m",
              "n", "o", "p", "q", "r", "s", "t", "u", "v", "w", "x", "y", "z">>
        ToLowerChar(c) ==
            IF \E i \in 1..Len(UpperLetters) : UpperLetters[i] = c
            THEN LowerLetters[CHOOSE i \in 1..Len(UpperLetters) : UpperLetters[i] = c]
            ELSE c
    IN [i \in 1..Len(chars) |-> ToLowerChar(chars[i])]

\* The Go string made of the characters
Str(chars) == Join(chars, "")

secretEcsKeysMap ==
    {"x-authorization", "authorization", "cookie", "x-san-iatx-user-pass"}

secretPlaceholderValue == "SECRET"

\* SanitizeEntry with the name looked up as it is written
SanitizeEntry_CaseSensitive(entry) ==
    LET found == Str(entry.name) \in secretEcsKeysMap
        after == IF found
                 THEN [entry EXCEPT !.values = <<secretPlaceholderValue>>]
                 ELSE entry
    IN [entry |-> after,
        plain |-> Str(after.name) \o "=" \o Join(after.values, ",")]

\* The body of SanitizeHeaders' inner loop for one key of one header: the
\* header after the assignment header[key] = []string{"SECRET"} (or
\* unchanged), and the entry appended to plainHeaders.
SanitizeEntry(entry) ==
    LET found == Str(ToLower(entry.name)) \in secretEcsKeysMap
        after == IF found
                 THEN [entry EXCEPT !.values = <<secretPlaceholderValue>>]
                 ELSE entry
    IN [entry |-> after,
        plain |-> Str(after.name) \o "=" \o Join(after.values, ",")]

\* SanitizeHeaders: every header of val in order, every key of a header in
\* the order range visits it. It writes the placeholder into the caller's
\* headers, so the result holds the headers as they are after the call too.
SanitizeHeaders(hs) ==
    LET one(header) == [i \in 1..Len(header) |-> SanitizeEntry(header[i])]
        flat[n \in 0..Len(hs)] ==
            IF n = 0 THEN <<>>
            ELSE flat[n - 1] \o
                 [i \in 1..Len(hs[n]) |-> one(hs[n])[i].plain]
    IN [plainHeaders |-> flat[Len(hs)],
        val |-> [n \in 1..Len(hs) |->
                    [i \in 1..Len(hs[n]) |-> one(hs[n])[i].entry]]]

\* The orders in which `range` may visit the n keys of a map: Go leaves the
\* order open and starts each range at a random key.
RangeOrders(n) == {p \in [1..n -> 1..n] : \A i, j \in 1..n : p[i] = p[j] => i = j}

\* The header maps, each with its entries in the order one range visits them
RECURSIVE Ranged(_)
Ranged(hs) ==
    IF hs = <<>> THEN {<<>>}
    ELSE { <<[i \in 1..Len(hs[1]) |-> hs[1][p[i]]]>> \o rest :
              p \in RangeOrders(Len(hs[1])), rest \in Ranged(Tail(hs)) }

\* The fields, each []http.Header payload with its maps as one range visits
\* them
RangedField(f) ==
    IF f.Interface.t = "[]http.Header"
    THEN { [f EXCEPT !.Interface.v = hs] : hs \in Ranged(f.Interface.v) }
    ELSE {f}

RECURSIVE RangedFields(_)
RangedFields(fs) ==
    IF fs = <<>> THEN {<<>>}
    ELSE { <<f>> \o rest : f \in RangedField(fs[1]), rest \in RangedFields(Tail(fs)) }

\* The header maps as maps: the entries of each, in no order
AsMaps(hs) == [n \in 1..Len(hs) |-> {hs[n][i] : i \in 1..Len(hs[n])}]

\* ecs.HTTPRequestBodyHeaders
HTTPRequestBodyHeaders(hs) ==
    zapStrings(FieldHTTPRequestBodyHeaders, SanitizeHeaders(hs).plainHeaders)

----------------------------------------------------------------------------
(* internal/objects: nil check *)

\* The dynamic types of the model whose reflect.Kind is Chan, Func, Map, Ptr
\* or UnsafePointer. A value of such a type holds <<>> when it is nil and
\* <<pointee>> otherwise.
IsNilValue(x) ==
    LET NilableTypes ==
            {"*Object", "*time.Location", "*errors.errorString",
             "*stringerMock", "chan int"}
    IN \/ x.t = "nil"
       \/ (x.t \in NilableTypes /\ x.v = <<>>)

----------------------------------------------------------------------------
(* internal/objects: the value-directed encoder and the flat object *)

\* One call of a zapcore.ObjectEncoder method: the method, the key and the
\* value handed over, with its type.
Add(op, key, type, value) ==
    [op |-> op, key |-> key, val |-> [t |-> type, v |-> value]]

\* What an encoding step leaves: the encoder calls made, the error returned
\* ("" for nil), and whether it panicked.
Encoded(adds, err, panicked) == [adds |-> adds, err |-> err, panicked |-> panicked]

\* x.(T) for a concrete type T: it panics unless x holds a T.
\* EncodeFieldInterface asserts field.Interface.(T) and hands the value to the
\* encoder method op.
AssertAdd(op, field, type) ==
    IF field.Interface.t = type
    THEN Encoded(<<Add(op, field.Key, type, field.Interface.v)>>, "", FALSE)
    ELSE Encoded(<<>>, "", TRUE)

\* The types of the model that implement fmt.Stringer, and String() of each
StringerTypes == {"*stringerMock", "*time.Location"}

\* The types of the model that implement error
ErrorTypes == {"*errors.errorString"}

\* The values encoding/json cannot marshal (AddReflected returns its error)
UnsupportedTypes == {"chan int"}

RECURSIVE MarshalLogObject(_)
RECURSIVE EncodeFieldInterface(_)

\* EncodeFieldInterface(enc, field)
EncodeFieldInterface(field) ==
    LET key == field.Key
        x == field.Interface
    IN CASE field.Type = "ArrayMarshalerType" ->
              IF x.t = "stringArray"
              THEN Encoded(<<Add("AddArray", key, "[]string", x.v)>>, "", FALSE)
              ELSE Encoded(<<>>, "", TRUE)
         [] field.Type = "ObjectMarshalerType" ->
              IF x.t = "*Object" /\ x.v /= <<>>
              THEN LET inner == MarshalLogObject(x.v[1])
                   IN Encoded(<<Add("AddObject", key, "object", inner.adds)>>,
                              inner.err, inner.panicked)
              ELSE Encoded(<<>>, "", TRUE)
         [] field.Type = "BinaryType" -> AssertAdd("AddBinary", field, "[]byte")
         [] field.Type = "BoolType" -> AssertAdd("AddBool", field, "bool")
         [] field.Type = "ByteStringType" -> AssertAdd("AddByteString", field, "[]byte")
         [] field.Type = "DurationType" -> AssertAdd("AddDuration", field, "time.Duration")
         [] field.Type = "Float64Type" -> AssertAdd("AddFloat64", field, "float64")
         [] field.Type = "Float32Type" -> AssertAdd("AddFloat32", field, "float32")
         [] field.Type = "Int64Type" -> AssertAdd("AddInt64", field, "int64")
         [] field.Type = "Int32Type" -> AssertAdd("AddInt32", field, "int32")
         [] field.Type = "Int16Type" -> AssertAdd("AddInt16", field, "int16")
         [] field.Type = "Int8Type" -> AssertAdd("AddInt8", field, "int8")
         [] field.Type = "StringType" -> AssertAdd("AddString", field, "string")
         [] field.Type = "TimeType" ->
              Encoded(<<Add("AddInt64", key, "int64", field.Integer)>>, "", FALSE)
         [] field.Type = "TimeFullType" -> AssertAdd("AddTime", field, "time.Time")
         [] field.Type = "Uint64Type" -> AssertAdd("AddUint64", field, "uint64")
         [] field.Type = "Uint32Type" -> AssertAdd("AddUint32", field, "uint32")
         [] field.Type = "Uint16Type" -> AssertAdd("AddUint16", field, "uint16")
         [] field.Type = "Uint8Type" -> AssertAdd("AddUint8", field, "uint8")
         [] field.Type = "UintptrType" -> AssertAdd("AddUintptr", field, "uintptr")
         [] field.Type = "ReflectType" ->
              IF x.t \in UnsupportedTypes
              THEN Encoded(<<>>, "json: unsupported type: " \o x.t, FALSE)
              ELSE Encoded(<<Add("AddReflected", key, x.t, x.v)>>, "", FALSE)
         [] field.Type = "StringerType" ->
              IF x.t \in StringerTypes /\ x.v /= <<>>
              THEN Encoded(<<Add("AddString", key, "string", x.v[1])>>, "", FALSE)
              ELSE Encoded(<<>>, "", TRUE)
         [] field.Type = "ErrorType" ->
              IF x.t \in ErrorTypes /\ x.v /= <<>>
              THEN Encoded(<<Add("AddString", key, "string", x.v[1])>>, "", FALSE)
              ELSE Encoded(<<>>, "", TRUE)
         [] OTHER -> Encoded(<<>>, "", FALSE)

\* AsObject
AsObject(fs) == [t |-> "*Object", v |-> <<fs>>]

\* Object.MarshalLogObject(enc) over the fields of the object: the loop stops
\* at the first error (return err) and at a panic.
MarshalLogObject(fs) ==
    IF Len(fs) = 0 THEN Encoded(<<>>, "", FALSE)
    ELSE LET field == fs[1]
             first == IF IsNilValue(field.Interface)
                      THEN Encoded(<<Add("AddString", field.Key, "string", field.String)>>,
                                   "", FALSE)
                      ELSE EncodeFieldInterface(field)
         IN IF first.err /= "" \/ first.panicked
            THEN first
            ELSE LET rest == MarshalLogObject(Tail(fs))
                 IN Encoded(first.adds \o rest.adds, rest.err, rest.panicked)

----------------------------------------------------------------------------
(* internal/objects: the HTTP object *)

\* fmt.Sprintf("%v", x) for the values of the model
Sprint(x) ==
    CASE x.t = "nil" -> "<nil>"
      [] x.t = "string" -> x.v
      [] x.t \in {"[]string", "stringArray"} -> "[" \o Join(x.v, " ") \o "]"
      [] x.t = "bool" -> IF x.v THEN "true" ELSE "false"
      [] x.t \in StringerTypes \cup ErrorTypes ->
            IF x.v = <<>> THEN "<nil>" ELSE x.v[1]
      [] OTHER -> "(" \o x.t \o ")"

\* getValueAsString
getValueAsString(field) ==
    IF field.String /= "" THEN field.String
    ELSE IF ~IsNilValue(field.Interface) /\ field.Interface.t = "[]http.Header"
    THEN Sprint([t |-> "[]string",
                 v |-> SanitizeHeaders(field.Interface.v).plainHeaders])
    ELSE Sprint(field.Interface)

\* A pointer of the HTTP schema is <<>> (nil) or <<the struct it points to>>.
HTTPBodyMarshalObject == [BodyContent |-> "", Headers |-> "", StatusCode |-> ""]

HTTPRequestMarshalObject == [Body |-> <<>>, RequestMethod |-> "", RequestReferrer |-> ""]

HTTPResponseMarshalObject == [Body |-> <<>>, ResponseReferrer |-> ""]

HTTPMarshalObject == [Request |-> <<>>, Response |-> <<>>]

\* requestNilGuard allocating the response node as well
requestNilGuard_Eager(object) ==
    LET o1 == IF object.Request = <<>>
              THEN [object EXCEPT !.Request = <<HTTPRequestMarshalObject>>]
              ELSE object
        o2 == IF o1.Response = <<>>
              THEN [o1 EXCEPT !.Response = <<HTTPResponseMarshalObject>>]
              ELSE o1
    IN IF o2.Request[1].Body = <<>>
       THEN [o2 EXCEPT !.Request[1].Body = <<HTTPBodyMarshalObject>>]
       ELSE o2

\* requestNilGuard
requestNilGuard(object) ==
    LET o1 == IF object.Request = <<>>
              THEN [object EXCEPT !.Request = <<HTTPRequestMarshalObject>>]
              ELSE object
    IN IF o1.Request[1].Body = <<>>
       THEN [o1 EXCEPT !.Request[1].Body = <<HTTPBodyMarshalObject>>]
       ELSE o1

\* responseNilGuard
responseNilGuard(object) ==
    LET o1 == IF object.Response = <<>>
              THEN [object EXCEPT !.Response = <<HTTPResponseMarshalObject>>]
              ELSE object
    IN IF o1.Response[1].Body = <<>>
       THEN [o1 EXCEPT !.Response[1].Body = <<HTTPBodyMarshalObject>>]
       ELSE o1

\* HTTPECSMapper(field, object): the object after the call
HTTPECSMapper(field, object) ==
    LET s == getValueAsString(field)
        req == requestNilGuard(object)
        resp == responseNilGuard(object)
    IN CASE field.Key = FieldHTTPRequestBodyContent ->
              [req EXCEPT !.Request[1].Body[1].BodyContent = s]
         [] field.Key = FieldHTTPRequestBodyHeaders ->
              [req EXCEPT !.Request[1].Body[1].Headers = s]
         [] field.Key = FieldHTTPRequestMethod ->
              [req EXCEPT !.Request[1].RequestMethod = s]
         [] field.Key = FieldHTTPRequestReferrer ->
              [req EXCEPT !.Request[1].RequestReferrer = s]
         [] field.Key = FieldHTTPResponseBodyContent ->
              [resp EXCEPT !.Response[1].Body[1].BodyContent = s]
         [] field.Key = FieldHTTPResponseStatusCode ->
              [resp EXCEPT !.Response[1].Body[1].StatusCode = s]
         [] field.Key = FieldHTTPResponseBodyReferrer ->
              [resp EXCEPT !.Response[1].ResponseReferrer = s]
         [] OTHER -> object

\* A JSON string. The strings of the model hold no character that JSON
\* escapes.
Quote(s) == "\"" \o s \o "\""

\* One member of a JSON object, or nothing when omitempty drops it: a string
\* is dropped when it is empty.
StringMember(name, s) == IF s = "" THEN <<>> ELSE <<Quote(name) \o ":" \o Quote(s)>>

\* A pointer member is dropped when the pointer is nil, and only then.
PointerMember(name, ptr, doc) ==
    IF ptr = <<>> THEN <<>> ELSE <<Quote(name) \o ":" \o doc>>

JSONObject(members) == "{" \o Join(members, ",") \o "}"

\* json.Marshal of each struct of the schema, members in declaration order
MarshalBody(b) ==
    JSONObject(StringMember("content", b.BodyContent)
               \o StringMember("headers", b.Headers)
               \o StringMember("status_code", b.StatusCode))

MarshalRequest(r) ==
    JSONObject(PointerMember("body", r.Body,
                             IF r.Body = <<>> THEN "" ELSE MarshalBody(r.Body[1]))
               \o StringMember("method", r.RequestMethod)
               \o StringMember("referrer", r.RequestReferrer))

MarshalResponse(r) ==
    JSONObject(PointerMember("body", r.Body,
                             IF r.Body = <<>> THEN "" ELSE MarshalBody(r.Body[1]))
               \o StringMember("referrer", r.ResponseReferrer))

MarshalTarget(target) ==
    JSONObject(PointerMember("request", target.Request,
                             IF target.Request = <<>> THEN ""
                             ELSE MarshalRequest(target.Request[1]))
               \o PointerMember("response", target.Response,
                                IF target.Response = <<>> THEN ""
                                ELSE MarshalResponse(target.Response[1])))

RECURSIVE MapFields(_, _)
\* The loop of HTTPObject.MarshalJSON: the mapper applied to every field
MapFields(fs, target) ==
    IF Len(fs) = 0 THEN target
    ELSE MapFields(Tail(fs), HTTPECSMapper(fs[1], target))

\* HTTPObject.MarshalJSON: the document and the error ("" for nil). The
\* schema holds strings only, which json.Marshal never rejects.
MarshalJSON(fs) == [data |-> MarshalTarget(MapFields(fs, HTTPMarshalObject)), err |-> ""]

\* NestedObject(baseKey, HTTPECSMapper, fields...).AsField()
AsField(baseKey, fs) ==
    LET m == MarshalJSON(fs)
        data == IF m.err /= "" THEN m.err ELSE m.data
    IN zapAny(baseKey, [t |-> "json.RawMessage", v |-> data])

----------------------------------------------------------------------------
(* logger.go: classification and assembly *)

\* newFieldAccumulators (the capacities play no part)
newFieldAccumulators(level) ==
    [l |-> level,
     labelsFieldsAccum |-> <<>>, logFieldsAccum |-> <<>>, httpFieldsAccum |-> <<>>,
     eventFieldsAccum |-> <<>>, errorFieldsAccum |-> <<>>, traceFieldsAccum |-> <<>>]

\* reduceKey: the last element of the dotted path
reduceKey(field) == [field EXCEPT !.Key = <<field.Key[Len(field.Key)]>>]

\* appendField with the trace family appended to the error bucket
appendField_TraceAsError(a, f) ==
    IF HasPrefix(f.Key, LogPrefix)
    THEN [a EXCEPT !.logFieldsAccum = Append(@, reduceKey(f))]
    ELSE IF HasPrefix(f.Key, HTTPPrefix)
    THEN [a EXCEPT !.httpFieldsAccum = Append(@, f)]
    ELSE IF HasPrefix(f.Key, EventPrefix)
    THEN [a EXCEPT !.eventFieldsAccum = Append(@, reduceKey(f))]
    ELSE IF HasPrefix(f.Key, ErrorPrefix) \/ HasPrefix(f.Key, TracePrefix)
    THEN [a EXCEPT !.errorFieldsAccum = Append(@, reduceKey(f))]
    ELSE [a EXCEPT !.labelsFieldsAccum = Append(@, reduceKey(f))]

\* appendField with a label appended under its whole key, as an HTTP field is
appendField_LabelUnreduced(a, f) ==
    IF HasPrefix(f.Key, LogPrefix)
    THEN [a EXCEPT !.logFieldsAccum = Append(@, reduceKey(f))]
    ELSE IF HasPrefix(f.Key, HTTPPrefix)
    THEN [a EXCEPT !.httpFieldsAccum = Append(@, f)]
    ELSE IF HasPrefix(f.Key, EventPrefix)
    THEN [a EXCEPT !.eventFieldsAccum = Append(@, reduceKey(f))]
    ELSE IF HasPrefix(f.Key, ErrorPrefix)
    THEN [a EXCEPT !.errorFieldsAccum = Append(@, reduceKey(f))]
    ELSE IF HasPrefix(f.Key, TracePrefix)
    THEN [a EXCEPT !.traceFieldsAccum = Append(@, reduceKey(f))]
    ELSE [a EXCEPT !.labelsFieldsAccum = Append(@, f)]

\* appendField with an error field appended to the labels bucket as well
appendField_ErrorAlsoLabel(a, f) ==
    IF HasPrefix(f.Key, LogPrefix)
    THEN [a EXCEPT !.logFieldsAccum = Append(@, reduceKey(f))]
    ELSE IF HasPrefix(f.Key, HTTPPrefix)
    THEN [a EXCEPT !.httpFieldsAccum = Append(@, f)]
    ELSE IF HasPrefix(f.Key, EventPrefix)
    THEN [a EXCEPT !.eventFieldsAccum = Append(@, reduceKey(f))]
    ELSE IF HasPrefix(f.Key, ErrorPrefix)
    THEN [a EXCEPT !.errorFieldsAccum = Append(@, reduceKey(f)),
                   !.labelsFieldsAccum = Append(@, reduceKey(f))]
    ELSE IF HasPrefix(f.Key, TracePrefix)
    THEN [a EXCEPT !.traceFieldsAccum = Append(@, reduceKey(f))]
    ELSE [a EXCEPT !.labelsFieldsAccum = Append(@, reduceKey(f))]

\* appendField with an http key outside the ECS key map treated as a label
appendField_UnknownHTTPAsLabel(a, f) ==
    IF HasPrefix(f.Key, LogPrefix)
    THEN [a EXCEPT !.logFieldsAccum = Append(@, reduceKey(f))]
    ELSE IF HasPrefix(f.Key, HTTPPrefix) /\ IsECSFieldName(f.Key)
    THEN [a EXCEPT !.httpFieldsAccum = Append(@, f)]
    ELSE IF HasPrefix(f.Key, EventPrefix)
    THEN [a EXCEPT !.eventFieldsAccum = Append(@, reduceKey(f))]
    ELSE IF HasPrefix(f.Key, ErrorPrefix)
    THEN [a EXCEPT !.errorFieldsAccum = Append(@, reduceKey(f))]
    ELSE IF HasPrefix(f.Key, TracePrefix)
    THEN [a EXCEPT !.traceFieldsAccum = Append(@, reduceKey(f))]
    ELSE [a EXCEPT !.labelsFieldsAccum = Append(@, reduceKey(f))]

\* fieldAccumulators.appendField: the accumulators after the call
appendField(a, f) ==
    IF HasPrefix(f.Key, LogPrefix)
    THEN [a EXCEPT !.logFieldsAccum = Append(@, reduceKey(f))]
    ELSE IF HasPrefix(f.Key, HTTPPrefix)
    THEN [a EXCEPT !.httpFieldsAccum = Append(@, f)]
    ELSE IF HasPrefix(f.Key, EventPrefix)
    THEN [a EXCEPT !.eventFieldsAccum = Append(@, reduceKey(f))]
    ELSE IF HasPrefix(f.Key, ErrorPrefix)
    THEN [a EXCEPT !.errorFieldsAccum = Append(@, reduceKey(f))]
    ELSE IF HasPrefix(f.Key, TracePrefix)
    THEN [a EXCEPT !.traceFieldsAccum = Append(@, reduceKey(f))]
    ELSE [a EXCEPT !.labelsFieldsAccum = Append(@, reduceKey(f))]

\* emitLogFields with the labels object appended first
emitLogFields_LabelsFirst(a, loggerField) ==
    LET logFieldsAccum ==
            a.logFieldsAccum
            \o <<reduceKey(loggerField),
                 reduceKey(zapString(FieldLogLevel, LevelString(a.l)))>>
    IN << zapObject(FieldLabels, AsObject(a.labelsFieldsAccum)),
          zapObject(LogBaseLevelKey, AsObject(logFieldsAccum)),
          AsField(HTTPBaseLevelKey, a.httpFieldsAccum),
          zapObject(EventBaseLevelKey, AsObject(a.eventFieldsAccum)),
          zapObject(ErrorBaseLevelKey, AsObject(a.errorFieldsAccum)),
          zapObject(TraceBaseLevelKey, AsObject(a.traceFieldsAccum)) >>

\* emitLogFields with the logger and level fields put before the call's
emitLogFields_LoggerFieldsFirst(a, loggerField) ==
    LET logFieldsAccum ==
            <<reduceKey(loggerField),
              reduceKey(zapString(FieldLogLevel, LevelString(a.l)))>>
            \o a.logFieldsAccum
    IN << zapObject(LogBaseLevelKey, AsObject(logFieldsAccum)),
          AsField(HTTPBaseLevelKey, a.httpFieldsAccum),
          zapObject(EventBaseLevelKey, AsObject(a.eventFieldsAccum)),
          zapObject(ErrorBaseLevelKey, AsObject(a.errorFieldsAccum)),
          zapObject(TraceBaseLevelKey, AsObject(a.traceFieldsAccum)),
          zapObject(FieldLabels, AsObject(a.labelsFieldsAccum)) >>

\* emitLogFields leaving out the flat buckets that hold no field
emitLogFields_OmitEmpty(a, loggerField) ==
    LET logFieldsAccum ==
            a.logFieldsAccum
            \o <<reduceKey(loggerField),
                 reduceKey(zapString(FieldLogLevel, LevelString(a.l)))>>
    IN SelectSeq(<< zapObject(LogBaseLevelKey, AsObject(logFieldsAccum)),
                    AsField(HTTPBaseLevelKey, a.httpFieldsAccum),
                    zapObject(EventBaseLevelKey, AsObject(a.eventFieldsAccum)),
                    zapObject(ErrorBaseLevelKey, AsObject(a.errorFieldsAccum)),
                    zapObject(TraceBaseLevelKey, AsObject(a.traceFieldsAccum)),
                    zapObject(FieldLabels, AsObject(a.labelsFieldsAccum)) >>,
                 LAMBDA f : f.Type /= "ObjectMarshalerType" \/ f.Interface /= AsObject(<<>>))

\* fieldAccumulators.emitLogFields
emitLogFields(a, loggerField) ==
    LET logFieldsAccum ==
            a.logFieldsAccum
            \o <<reduceKey(loggerField),
                 reduceKey(zapString(FieldLogLevel, LevelString(a.l)))>>
    IN << zapObject(LogBaseLevelKey, AsObject(logFieldsAccum)),
          AsField(HTTPBaseLevelKey, a.httpFieldsAccum),
          zapObject(EventBaseLevelKey, AsObject(a.eventFieldsAccum)),
          zapObject(ErrorBaseLevelKey, AsObject(a.errorFieldsAccum)),
          zapObject(TraceBaseLevelKey, AsObject(a.traceFieldsAccum)),
          zapObject(FieldLabels, AsObject(a.labelsFieldsAccum)) >>

\* filterField without the check of processedFields
filterField_NoDedup(st, field) ==
    LET st1 == [st EXCEPT !.processedFields = @ \cup {field.Key}]
    IN IF IsECSFieldName(field.Key) /\ field.Key = FieldTags
       THEN IF field.Interface.t /= "nil"
            THEN IF field.Interface.t = "[]string"
                 THEN [st1 EXCEPT !.entryTags = @ \o field.Interface.v]
                 ELSE [st1 EXCEPT !.panicked = TRUE]
            ELSE st1
       ELSE [st1 EXCEPT !.accums = appendField(@, field)]

\* filterField appending only the tags that entryTags does not hold yet
filterField_UniqueTags(st, field) ==
    IF field.Key \in st.processedFields
    THEN st
    ELSE LET st1 == [st EXCEPT !.processedFields = @ \cup {field.Key}]
             held == {st.entryTags[i] : i \in 1..Len(st.entryTags)}
         IN IF IsECSFieldName(field.Key) /\ field.Key = FieldTags
            THEN IF field.Interface.t /= "nil"
                 THEN IF field.Interface.t = "[]string"
                      THEN [st1 EXCEPT !.entryTags =
                               @ \o SelectSeq(field.Interface.v, LAMBDA t : t \notin held)]
                      ELSE [st1 EXCEPT !.panicked = TRUE]
                 ELSE st1
            ELSE [st1 EXCEPT !.accums = appendField(@, field)]

\* filterField with the tags case ahead of the duplicate check: every tag
\* field of the call extends entryTags
filterField_EveryTagField(st, field) ==
    IF field.Key = FieldTags /\ field.Interface.t = "[]string"
    THEN [st EXCEPT !.processedFields = @ \cup {field.Key},
                    !.entryTags = @ \o field.Interface.v]
    ELSE IF field.Key \in st.processedFields
    THEN st
    ELSE LET st1 == [st EXCEPT !.processedFields = @ \cup {field.Key}]
         IN IF IsECSFieldName(field.Key) /\ field.Key = FieldTags
            THEN IF field.Interface.t /= "nil"
                 THEN [st1 EXCEPT !.panicked = TRUE]
                 ELSE st1
            ELSE [st1 EXCEPT !.accums = appendField(@, field)]

\* One iteration of the loop of encodeFields over st, the locals of the
\* function: processedFields, accums, entryTags, and whether the tags
\* assertion field.Interface.([]string) panicked.
filterField(st, field) ==
    IF field.Key \in st.processedFields
    THEN st
    ELSE LET st1 == [st EXCEPT !.processedFields = @ \cup {field.Key}]
         IN IF IsECSFieldName(field.Key) /\ field.Key = FieldTags
            THEN IF field.Interface.t /= "nil"
                 THEN IF field.Interface.t = "[]string"
                      THEN [st1 EXCEPT !.entryTags = @ \o field.Interface.v]
                      ELSE [st1 EXCEPT !.panicked = TRUE]
                 ELSE st1
            ELSE [st1 EXCEPT !.accums = appendField(@, field)]

RECURSIVE filterFields(_, _)
\* The loop of encodeFields: it ends at a panic
filterFields(st, fs) ==
    IF Len(fs) = 0 \/ st.panicked THEN st
    ELSE filterFields(filterField(st, fs[1]), Tail(fs))

\* The locals of encodeFields when its loop is over
classify(lg, fs, level) ==
    filterFields([processedFields |-> {}, accums |-> newFieldAccumulators(level),
                  entryTags |-> lg.baseTags, panicked |-> FALSE], fs)

\* encodeFields adding the tags field whatever the length of entryTags
encodeFields_AlwaysTags(lg, fs, level) ==
    LET st == classify(lg, fs, level)
    IN IF st.panicked
       THEN [panicked |-> TRUE, logFields |-> <<>>]
       ELSE [panicked |-> FALSE,
             logFields |-> <<zapStrings(FieldTags, st.entryTags)>> \o lg.baseLabels
                           \o emitLogFields(st.accums, lg.baseLoggerField)]

\* encodeFields leaving out the base labels whose key a call field carried
encodeFields_JointDedup(lg, fs, level) ==
    LET st == classify(lg, fs, level)
        tagsField == IF Len(st.entryTags) > 0
                     THEN <<zapStrings(FieldTags, st.entryTags)>>
                     ELSE <<>>
    IN IF st.panicked
       THEN [panicked |-> TRUE, logFields |-> <<>>]
       ELSE [panicked |-> FALSE,
             logFields |-> tagsField
                           \o SelectSeq(lg.baseLabels,
                                        LAMBDA b : b.Key \notin st.processedFields)
                           \o emitLogFields(st.accums, lg.baseLoggerField)]

\* zapECSLogger.encodeFields: the final field list, or a panic
encodeFields(lg, fs, level) ==
    LET st == classify(lg, fs, level)
        tagsField == IF Len(st.entryTags) > 0
                     THEN <<zapStrings(FieldTags, st.entryTags)>>
                     ELSE <<>>
    IN IF st.panicked
       THEN [panicked |-> TRUE, logFields |-> <<>>]
       ELSE [panicked |-> FALSE,
             logFields |-> tagsField \o lg.baseLabels
                           \o emitLogFields(st.accums, lg.baseLoggerField)]

----------------------------------------------------------------------------
(* The sink: l.logger, a *zap.Logger (go.uber.org/zap) *)

\* zapcore.Field.AddTo(enc): what the sink's encoder is handed for one field
\* of the final list. An object field has the encoder call the object's
\* MarshalLogObject.
AddTo(f) ==
    CASE f.Type = "ObjectMarshalerType" -> EncodeFieldInterface(f)
      [] f.Type = "ArrayMarshalerType" -> EncodeFieldInterface(f)
      [] f.Type = "ReflectType" -> EncodeFieldInterface(f)
      [] f.Type = "StringType" ->
            Encoded(<<Add("AddString", f.Key, "string", f.String)>>, "", FALSE)
      [] OTHER -> Encoded(<<>>, "", FALSE)

\* No entry written
NoEntry == [level |-> "", msg |-> "", fields |-> <<>>, written |-> <<>>]

\* zap.New(zapcore.NewCore(encoder, ws, level)): a sink whose core lets
\* through the entries of the level and of the levels above it
zapNew(level) == [level |-> level]

\* logger.Core().Enabled(level)
Enabled(zl, level) == LevelRank(level) >= LevelRank(zl.level)

\* logger.Debug(msg, fields...) .. logger.Fatal(msg, fields...): the entry
\* the sink writes, none when its core does not let the level through
Write(zl, level, m, fs) ==
    IF Enabled(zl, level)
    THEN [level |-> level, msg |-> m, fields |-> fs,
          written |-> [i \in 1..Len(fs) |-> AddTo(fs[i])]]
    ELSE NoEntry

----------------------------------------------------------------------------
(* The logger's configuration (Options, NewECSLogger) *)

baseLoggerField == zapString(FieldLogger, "ecs_(uber-go/zap)")

\* Options
Options(tags, labels) ==
    [BaseLoggerField |-> baseLoggerField, BaseTags |-> tags, BaseLabels |-> labels,
     Logger |-> zapNew("DebugLevel")]

\* The configurations a logger is built with: nothing configured, base
\* labels only, base tags and base labels. Base labels carry label keys.
baseLabels ==
    <<zapString(FieldLabelApplication, "app"), zapString(FieldLabelService, "svc")>>

Configurations ==
    { Options(<<>>, <<>>), Options(<<>>, baseLabels), Options(<<"a", "prod">>, baseLabels) }

\* NewECSLogger
NewECSLogger(o) ==
    [baseLoggerField |-> o.BaseLoggerField, baseTags |-> o.BaseTags,
     baseLabels |-> o.BaseLabels, logger |-> o.Logger]

----------------------------------------------------------------------------
(* The fields a caller passes *)

\* Call fields for Spec: keys of the label, log, event, error and trace
\* families, a key given twice with two values, two tag fields
CallFields ==
    << zapString(<<"foo">>, "a"),
       zapString(<<"foo">>, "b"),
       zapString(<<"custom", "x">>, "c"),
       zapString(FieldEventAction, "started"),
       zapString(<<"log", "origin">>, "o"),
       zapString(FieldErrorMessage, "fail"),
       zapString(FieldTraceID, "t1"),
       ecsTags(<<"a", "b">>),
       ecsTags(<<"c">>) >>

\* Call fields for SpecLabels: the keys of the two base labels, another label
\* key, a tag field
LabelFields ==
    << zapString(FieldLabelApplication, "app2"),
       zapString(FieldLabelService, "svc2"),
       zapString(<<"foo">>, "a"),
       ecsTags(<<"c">>) >>

\* Call fields for SpecMismatch: tag fields whose payload is no []string
\* (zap.Strings carries zap's own array type), fields whose payload is not
\* of the declared kind, a value encoding/json rejects, well-formed fields
MismatchFields ==
    << zapStrings(FieldTags, <<"x">>),
       zapReflect(FieldTags, [t |-> "int", v |-> 42]),
       zapString(FieldTags, "x"),
       ecsTags(<<"c">>),
       Field(<<"bool_example">>, "BoolType", 0, "", [t |-> "string", v |-> "yes"]),
       zapReflect(<<"chan_example">>, [t |-> "chan int", v |-> <<"ch">>]),
       zapString(<<"a">>, "1"),
       zapString(<<"b">>, "2"),
       zapString(FieldEventAction, "started") >>

\* Call fields for SpecHTTP: the seven keys the mapper knows, an http key
\* it does not know, a field of another family
HTTPFields ==
    << zapString(FieldHTTPRequestMethod, "POST"),
       zapString(FieldHTTPRequestReferrer, "ref"),
       zapString(FieldHTTPRequestBodyContent, "hello"),
       zapAny(FieldHTTPRequestBodyHeaders,
              [t |-> "[]http.Header",
               v |-> << << [name |-> <<"C", "o", "o", "k", "i", "e">>,
                            values |-> <<"secret123">>],
                           [name |-> <<"X", "-", "T", "r", "a", "c", "e">>,
                            values |-> <<"t1">>] >> >>]),
       zapString(FieldHTTPResponseStatusCode, "201"),
       zapString(FieldHTTPResponseBodyContent, "ok"),
       zapString(FieldHTTPResponseBodyReferrer, "back"),
       zapString(<<"http", "version">>, "1.1"),
       zapString(<<"foo">>, "a") >>

\* Call fields for SpecLeaves: recognized HTTP keys carrying a string, an
\* empty string, an integer, a boolean, a Stringer, a header list given as
\* it is and one given through ecs.HTTPRequestBodyHeaders
LeafFields ==
    << zapString(FieldHTTPRequestMethod, "POST"),
       zapString(FieldHTTPResponseStatusCode, "201"),
       zapInt64(FieldHTTPResponseStatusCode, 201),
       zapString(FieldHTTPResponseBodyReferrer, ""),
       zapBool(FieldHTTPRequestBodyContent, TRUE),
       zapReflect(FieldHTTPRequestReferrer, [t |-> "*stringerMock", v |-> <<"ref">>]),
       HTTPFields[4],
       HTTPRequestBodyHeaders(
           << << [name |-> <<"C", "o", "o", "k", "i", "e">>,
                  values |-> <<"secret123">>] >> >>) >>

\* Call fields for SpecReduced: keys that differ and end in the same element,
\* in one family and across families, and the keys of the two entries
\* emitLogFields appends
ReducedFields ==
    << zapString(<<"foo">>, "a"),
       zapString(<<"custom", "foo">>, "c"),
       zapString(FieldLogLevel, "x"),
       zapString(FieldLogger, "mine"),
       zapString(<<"log", "origin">>, "o"),
       zapString(FieldEventAction, "started"),
       zapString(<<"error", "action">>, "failed") >>

\* Call fields for SpecKinds: one field of every value kind, built by zap's
\* constructors; fields of skip kind and of kinds the encoder has no case
\* for, with and without a payload
KindFields ==
    << zapBool(<<"bool_example">>, TRUE),
       zapInt64(<<"int64_example">>, 42),
       zapInt8(<<"int8_example">>, 42),
       zapUint32(<<"uint32_example">>, 42),
       zapFloat64(<<"float64_example">>, Float64frombits(314)),
       zapFloat32(<<"float32_example">>, Float32frombits(27)),
       zapString(<<"string_example">>, "foo"),
       zapDuration(<<"duration_example">>, 1532),
       zapTime(<<"time_example">>, [nanos |-> 11, loc |-> "UTC"]),
       zapTime(<<"time_fullexample">>, [nanos |-> MinTimeInt64 - 1, loc |-> "UTC"]),
       zapBinary(<<"binary_example">>, <<0, 1, 0>>),
       zapByteString(<<"bytestring_example">>, <<104, 105>>),
       zapStrings(<<"strings_example">>, <<"foo", "bar">>),
       zapNamedError(<<"error">>, [t |-> "*errors.errorString", v |-> <<"fail">>]),
       zapReflect(<<"reflect_example">>, [t |-> "string", v |-> "foo"]),
       zapSkip,
       Field(<<"skipped">>, "SkipType", 0, "", [t |-> "[]string", v |-> <<"a">>]),
       Field(<<"event", "skipped">>, "SkipType", 0, "", Nil),
       zapNamespace(<<"namespace_example">>),
       zapComplex128(<<"complex_example">>, <<1, 2>>) >>

\* Header names for SpecHeaders: secret names in several cases, other names
HeaderNames ==
    << <<"A", "u", "t", "h", "o", "r", "i", "z", "a", "t", "i", "o", "n">>,
       <<"C", "O", "O", "K", "I", "E">>,
       <<"X", "-", "T", "r", "a", "c", "e">>,
       <<"x", "-", "s", "a", "n", "-", "i", "a", "t", "x", "-", "u", "s", "e", "r",
         "-", "p", "a", "s", "s">>,
       <<"X", "-", "A", "u", "t", "h", "o", "r", "i", "Z", "a", "t", "i", "o", "n">> >>

\* Header names for SpecRuns: two ordinary names and a secret one
RunHeaderNames ==
    << <<"X", "-", "T", "r", "a", "c", "e">>,
       <<"m", "e", "h">>,
       <<"C", "o", "o", "k", "i", "e">> >>

\* Header values for SpecHeaders
HeaderValues == << <<"secret123">>, <<"not", "a", "secret">> >>

----------------------------------------------------------------------------
(* The operations *)

\* The message of the calls
DefaultMessage == "this is a test message"

InitWith(configurations) ==
    /\ \E o \in configurations : l = NewECSLogger(o)
    /\ pc = "ready"
    /\ fields = <<>>
    /\ lvl = ""
    /\ filteredFields = <<>>
    /\ logger = NoEntry
    /\ headers = <<>>
    /\ val = <<>>
    /\ plainHeaders = <<>>
    /\ msg = DefaultMessage
    /\ runs = <<>>
    /\ procs = <<>>

Init == InitWith(Configurations)

\* The caller adds one field to the argument list of the call it prepares.
AddArg(f, max) ==
    /\ pc = "ready"
    /\ Len(fields) < max
    /\ fields' = Append(fields, f)
    /\ UNCHANGED <<l, pc, lvl, filteredFields, logger, headers, val, plainHeaders,
                   msg, runs, procs>>

\* Call with the sink's Info method whatever the method called
Call_SinkAtInfo(lg, m, fs, level, after) ==
    LET r == encodeFields(lg, fs, level)
        entry == Write(lg.logger, "InfoLevel", m, r.logFields)
    IN IF r.panicked
       THEN [pc |-> "panicked", filteredFields |-> <<>>, logger |-> NoEntry]
       ELSE IF \E i \in 1..Len(entry.written) : entry.written[i].panicked
       THEN [pc |-> "panicked", filteredFields |-> r.logFields, logger |-> NoEntry]
       ELSE [pc |-> after, filteredFields |-> r.logFields, logger |-> entry]

\* The body shared by Debug .. Fatal: encodeFields, then the sink's method of
\* the same severity. A panic (in encodeFields, or in the sink's encoder
\* when it runs an object's MarshalLogObject) unwinds into the caller; `after`
\* is where the sink's method leaves the caller otherwise. fs holds the call
\* fields with the keys of every header map in the order this call's range
\* visits them.
Call(lg, m, fs, level, after) ==
    LET r == encodeFields(lg, fs, level)
        entry == Write(lg.logger, level, m, r.logFields)
    IN IF r.panicked
       THEN [pc |-> "panicked", filteredFields |-> <<>>, logger |-> NoEntry]
       ELSE IF \E i \in 1..Len(entry.written) : entry.written[i].panicked
       THEN [pc |-> "panicked", filteredFields |-> r.logFields, logger |-> NoEntry]
       ELSE [pc |-> after, filteredFields |-> r.logFields, logger |-> entry]

Log(level, after) ==
    /\ pc = "ready"
    /\ lvl' = level
    /\ \E fs \in RangedFields(fields) : \E out \in {Call(l, msg, fs, level, after)} :
          /\ pc' = out.pc
          /\ filteredFields' = out.filteredFields
          /\ logger' = out.logger
    /\ UNCHANGED <<l, fields, headers, val, plainHeaders, msg, runs, procs>>

Debug == Log("DebugLevel", "returned")

Info == Log("InfoLevel", "returned")

Warn == Log("WarnLevel", "returned")

Error == Log("ErrorLevel", "returned")

\* zap's Panic writes the entry, then panics.
Panic == Log("PanicLevel", "panicked")

\* zap's Fatal writes the entry, then calls os.Exit(1).
Fatal == Log("FatalLevel", "exited")

\* The caller (having recovered, after a panic) empties the sink's buffer and
\* starts preparing another call.
NextCall ==
    /\ pc \in {"returned", "panicked"}
    /\ pc' = "ready"
    /\ fields' = <<>>
    /\ lvl' = ""
    /\ filteredFields' = <<>>
    /\ logger' = NoEntry
    /\ msg' = DefaultMessage
    /\ runs' = <<>>
    /\ UNCHANGED <<l, headers, val, plainHeaders, procs>>

\* The caller, after a call that returned, makes the same call again: the
\* same method with the same message and fields (the 2nd_pass cases of
\* Test_LoggerFormat). `runs` keeps what the call before was given and built.
Repeat ==
    /\ pc = "returned"
    /\ Len(runs) < MaxRuns
    /\ runs' = Append(runs, [input |-> <<l, fields, lvl>>, output |-> filteredFields])
    /\ \E fs \in RangedFields(fields) : \E out \in {Call(l, msg, fs, lvl, "returned")} :
          /\ pc' = out.pc
          /\ filteredFields' = out.filteredFields
          /\ logger' = out.logger
    /\ UNCHANGED <<l, fields, lvl, headers, val, plainHeaders, msg, procs>>

\* zapECSLogger.SetLevel with the level given to the sink's core
SetLevelOf_Applies(lg, level) == [lg EXCEPT !.logger = zapNew(level)]

\* The body of zapECSLogger.SetLevel: l.logger.Core().Enabled(level), whose
\* result is dropped. The logger after the call.
SetLevelOf(lg, level) ==
    LET enabled == Enabled(lg.logger, level)
    IN IF enabled THEN lg ELSE lg

\* l.SetLevel(level). `runs` keeps the logger each call was made on, the
\* level asked for, and the logger the call left.
SetLevel(level) ==
    /\ pc = "ready"
    /\ Len(runs) < MaxRuns
    /\ \E out \in {SetLevelOf(l, level)} :
          /\ l' = out
          /\ runs' = Append(runs, [input |-> <<l, level>>, output |-> out])
    /\ UNCHANGED <<pc, fields, lvl, filteredFields, logger, headers, val,
                   plainHeaders, msg, procs>>

\* The messages of the calls of SpecSeverities
Messages == {DefaultMessage, "another message"}

\* The caller picks the message of the call it prepares.
SetMessage(m) ==
    /\ pc = "ready"
    /\ msg /= m
    /\ msg' = m
    /\ UNCHANGED <<l, pc, fields, lvl, filteredFields, logger, headers, val,
                   plainHeaders, runs, procs>>

\* The number of entries of the header maps
RECURSIVE Entries(_)
Entries(hs) == IF hs = <<>> THEN 0 ELSE Len(hs[1]) + Entries(Tail(hs))

\* The caller sets one header: in a new header map appended to its list, or
\* in the last map of the list when that map does not hold the name yet.
SetHeader(name, values, new) ==
    /\ pc = "ready"
    /\ Entries(headers) < MaxEntries
    /\ IF new
       THEN headers' = Append(headers, <<[name |-> name, values |-> values]>>)
       ELSE /\ Len(headers) > 0
            /\ \A i \in 1..Len(headers[Len(headers)]) :
                  headers[Len(headers)][i].name /= name
            /\ headers' = [headers EXCEPT ![Len(headers)] =
                              Append(@, [name |-> name, values |-> values])]
    /\ UNCHANGED <<l, pc, fields, lvl, filteredFields, logger, val, plainHeaders,
                   msg, runs, procs>>

\* ecs.SanitizeHeaders(val) on the caller's headers
Sanitize ==
    /\ pc = "ready"
    /\ pc' = "returned"
    /\ val' = headers
    /\ \E out \in {SanitizeHeaders(headers)} :
          /\ plainHeaders' = out.plainHeaders
          /\ headers' = out.val
    /\ UNCHANGED <<l, fields, lvl, filteredFields, logger, msg, runs, procs>>

\* The caller drops the headers and the result.
Discard ==
    /\ pc = "returned"
    /\ pc' = "ready"
    /\ headers' = <<>>
    /\ val' = <<>>
    /\ plainHeaders' = <<>>
    /\ UNCHANGED <<l, fields, lvl, filteredFields, logger, msg, runs, procs>>

Next ==
    \/ \E i \in 1..Len(CallFields) : AddArg(CallFields[i], MaxFields)
    \/ Debug
    \/ Info
    \/ Warn
    \/ Error
    \/ Panic
    \/ Fatal
    \/ NextCall

Spec == Init /\ [][Next]_vars

NextHeaders ==
    \/ \E i \in 1..Len(HeaderNames), j \in 1..Len(HeaderValues), new \in BOOLEAN :
          SetHeader(HeaderNames[i], HeaderValues[j], new)
    \/ Sanitize
    \/ Discard

NextHTTP ==
    \/ \E i \in 1..Len(HTTPFields) : AddArg(HTTPFields[i], MaxHTTPFields)
    \/ Info
    \/ Error
    \/ NextCall

\* Log calls with fields of the http family
SpecHTTP == InitWith({Options(<<>>, <<>>)}) /\ [][NextHTTP]_vars

NextLabels ==
    \/ \E i \in 1..Len(LabelFields) : AddArg(LabelFields[i], MaxLabelFields)
    \/ Info
    \/ Error
    \/ NextCall

\* Log calls with fields that carry the keys of the base labels
SpecLabels == Init /\ [][NextLabels]_vars

NextMismatch ==
    \/ \E i \in 1..Len(MismatchFields) : AddArg(MismatchFields[i], MaxMismatchFields)
    \/ Info
    \/ Error
    \/ NextCall

\* Log calls with fields whose payload does not fit, on a logger with a
\* base tag
SpecMismatch == InitWith({Options(<<"prod">>, <<>>)}) /\ [][NextMismatch]_vars

\* One run of the HTTP encoder on the caller's headers:
\* NestedObject("http", HTTPECSMapper, zap.Any("http.request.body.headers",
\* headers)).MarshalJSON(). SanitizeHeaders ranges over every map and writes
\* the placeholder into it.
EncodeHTTP ==
    /\ pc = "ready"
    /\ headers /= <<>>
    /\ Len(runs) < MaxRuns
    /\ \E hs \in Ranged(headers) :
          runs' = Append(runs,
                         [input |-> AsMaps(headers),
                          output |-> MarshalJSON(<<zapAny(FieldHTTPRequestBodyHeaders,
                                                    [t |-> "[]http.Header", v |-> hs])>>).data])
    /\ headers' = SanitizeHeaders(headers).val
    /\ UNCHANGED <<l, pc, fields, lvl, filteredFields, logger, val, plainHeaders,
                   msg, procs>>

NextRuns ==
    \/ \E i \in 1..Len(RunHeaderNames), new \in BOOLEAN :
          SetHeader(RunHeaderNames[i], HeaderValues[1], new)
    \/ EncodeHTTP

\* Runs of the HTTP encoder on the same headers
SpecRuns == InitWith({Options(<<>>, <<>>)}) /\ [][NextRuns]_vars

NextRepeat ==
    \/ \E i \in 1..Len(CallFields) : AddArg(CallFields[i], MaxRepeatFields)
    \/ \E i \in 1..Len(HTTPFields) : AddArg(HTTPFields[i], MaxRepeatFields)
    \/ Info
    \/ Error
    \/ Repeat
    \/ NextCall

\* Log calls made more than once
SpecRepeat == Init /\ [][NextRepeat]_vars

\* The keys of the header maps, as <<map, entry>>, in the orders in which the
\* ranges of SanitizeHeaders may visit them
RECURSIVE RangedKeys(_, _)
RangedKeys(hs, n) ==
    IF n > Len(hs) THEN {<<>>}
    ELSE { [i \in 1..Len(hs[n]) |-> <<n, p[i]>>] \o rest :
              p \in RangeOrders(Len(hs[n])), rest \in RangedKeys(hs, n + 1) }

\* The caller's field for its headers
HeadersField == zapAny(FieldHTTPRequestBodyHeaders, [t |-> "[]http.Header", v |-> headers])

\* go l.Info(msg, zap.Any("http.request.body.headers", headers)): one more
\* goroutine makes the call, given the same message and the same headers as
\* the others. encodeFields works on the goroutine's own locals up to
\* emitLogFields, whose AsField() has the mapper run SanitizeHeaders on the
\* caller's headers.
Go ==
    /\ pc = "ready"
    /\ headers /= <<>>
    /\ Len(procs) < MaxGoroutines
    /\ \E todo \in RangedKeys(headers, 1) :
          procs' = Append(procs,
                          [pc |-> "encoding",
                           fields |-> <<HeadersField>>,
                           filteredFields |-> <<>>,
                           todo |-> todo,
                           reads |-> {},
                           writes |-> {},
                           plainHeaders |-> <<>>])
    /\ UNCHANGED <<l, pc, fields, lvl, filteredFields, logger, headers, val,
                   plainHeaders, msg, runs>>

\* One pass of SanitizeHeaders' inner loop in goroutine p: for a secret name
\* the assignment header[key] = []string{"SECRET"}, then the read of
\* header[key] for the entry appended to plainHeaders.
Visit(p) ==
    /\ procs[p].pc = "encoding"
    /\ procs[p].todo /= <<>>
    /\ LET n == Head(procs[p].todo)[1]
           i == Head(procs[p].todo)[2]
           entry == headers[n][i]
           out == SanitizeEntry(entry)
           at == <<n, entry.name>>
           found == Str(ToLower(entry.name)) \in secretEcsKeysMap
       IN /\ headers' = [headers EXCEPT ![n][i] = out.entry]
          /\ procs' = [procs EXCEPT ![p] =
                          [@ EXCEPT !.todo = Tail(@),
                                    !.reads = @ \cup {at},
                                    !.writes = IF found THEN @ \cup {at} ELSE @,
                                    !.plainHeaders = Append(@, out.plain)]]
    /\ UNCHANGED <<l, pc, fields, lvl, filteredFields, logger, val, plainHeaders,
                   msg, runs>>

\* SanitizeHeaders is through in goroutine p: the mapper sets the headers
\* leaf to the text of plainHeaders, encodeFields returns the list and the
\* sink's method writes the entry.
Return(p) ==
    /\ procs[p].pc = "encoding"
    /\ procs[p].todo = <<>>
    /\ procs' = [procs EXCEPT ![p] =
                    [@ EXCEPT !.pc = "returned",
                              !.filteredFields =
                                  encodeFields(l,
                                               <<zapString(FieldHTTPRequestBodyHeaders,
                                                           Sprint([t |-> "[]string",
                                                                   v |-> procs[p].plainHeaders]))>>,
                                               "InfoLevel").logFields]]
    /\ UNCHANGED <<l, pc, fields, lvl, filteredFields, logger, headers, val,
                   plainHeaders, msg, runs>>

\* Goroutine p is about to assign to a key of a map that goroutine q still
\* ranges over: the Go runtime may find the map in use by both and end the
\* process ("fatal error: concurrent map iteration and map write").
Throw(p) ==
    /\ procs[p].pc = "encoding"
    /\ procs[p].todo /= <<>>
    /\ LET n == Head(procs[p].todo)[1]
           entry == headers[n][Head(procs[p].todo)[2]]
       IN /\ Str(ToLower(entry.name)) \in secretEcsKeysMap
          /\ \E q \in 1..Len(procs) :
                /\ q /= p
                /\ procs[q].pc = "encoding"
                /\ \E k \in 1..Len(procs[q].todo) : procs[q].todo[k][1] = n
    /\ pc' = "exited"
    /\ procs' = [q \in 1..Len(procs) |-> [procs[q] EXCEPT !.pc = "exited"]]
    /\ UNCHANGED <<l, fields, lvl, filteredFields, logger, headers, val,
                   plainHeaders, msg, runs>>

NextConcurrent ==
    \/ \E i \in 1..Len(RunHeaderNames), new \in BOOLEAN :
          procs = <<>> /\ SetHeader(RunHeaderNames[i], HeaderValues[1], new)
    \/ Go
    \/ \E p \in 1..Len(procs) : Visit(p)
    \/ \E p \in 1..Len(procs) : Return(p)
    \/ \E p \in 1..Len(procs) : Throw(p)

\* Log calls made by several goroutines at the same time
SpecConcurrent == InitWith({Options(<<>>, <<>>)}) /\ [][NextConcurrent]_vars

NextSeverities ==
    \/ \E i \in 1..Len(CallFields) : AddArg(CallFields[i], MaxSeverityFields)
    \/ AddArg(HTTPFields[4], MaxSeverityFields)
    \/ \E m \in Messages : SetMessage(m)
    \/ Debug
    \/ Info
    \/ Warn
    \/ Error
    \/ Panic
    \/ Fatal
    \/ NextCall

\* Log calls at every severity, with the message the caller picks
SpecSeverities == Init /\ [][NextSeverities]_vars

NextLeaves ==
    \/ \E i \in 1..Len(LeafFields) : AddArg(LeafFields[i], MaxLeafFields)
    \/ Info
    \/ Error
    \/ NextCall

\* Log calls with recognized HTTP fields of several value kinds
SpecLeaves == InitWith({Options(<<>>, <<>>)}) /\ [][NextLeaves]_vars

NextReduced ==
    \/ \E i \in 1..Len(ReducedFields) : AddArg(ReducedFields[i], MaxReducedFields)
    \/ Info
    \/ Error
    \/ NextCall

\* Log calls with keys that reduce to the same name
SpecReduced == Init /\ [][NextReduced]_vars

NextLevels ==
    \/ \E level \in Levels : SetLevel(level)
    \/ Debug
    \/ Info
    \/ Warn
    \/ Error
    \/ NextCall

\* Loggers over a sink at debug level and over a sink at warn level, with
\* calls of SetLevel before the log calls
SpecLevels ==
    /\ InitWith({ Options(<<>>, <<>>),
                  [Options(<<>>, <<>>) EXCEPT !.Logger = zapNew("WarnLevel")] })
    /\ [][NextLevels]_vars

NextKinds ==
    \/ \E i \in 1..Len(KindFields) : AddArg(KindFields[i], MaxKindFields)
    \/ Info
    \/ Warn
    \/ NextCall

\* Log calls with fields of every value kind
SpecKinds == InitWith({Options(<<>>, <<>>)}) /\ [][NextKinds]_vars

\* Calls of ecs.SanitizeHeaders
SpecHeaders == InitWith({Options(<<>>, <<>>)}) /\ [][NextHeaders]_vars

----------------------------------------------------------------------------
(* What the claims speak of *)

\* A log method was called and encodeFields returned a field list.
Assembled == pc /= "ready" /\ filteredFields /= <<>>

\* The fields of the call that survive deduplication: each key's first field,
\* in call order.
Surviving(fs) ==
    LET keep(i) == \A j \in 1..(i - 1) : fs[j].Key /= fs[i].Key
        idx[n \in 0..Len(fs)] ==
            IF n = 0 THEN <<>>
            ELSE IF keep(n) THEN Append(idx[n - 1], fs[n]) ELSE idx[n - 1]
    IN idx[Len(fs)]

\* The fields of fs that satisfy Test, in order, each under the part of its
\* key after the final dot.
Reduced(fs, Test(_)) ==
    LET sel == SelectSeq(fs, Test)
    IN [i \in 1..Len(sel) |-> [sel[i] EXCEPT !.Key = <<sel[i].Key[Len(sel[i].Key)]>>]]

\* The family of a key: the recognized prefix it starts with, or "labels"
Family(key) ==
    IF Len(key) < 2 THEN "labels"
    ELSE IF key[1] \in {"log", "http", "event", "error", "trace"} THEN key[1]
    ELSE "labels"

\* The fields of the bucket emitted under top-level key `key` in the final
\* list ff (an object field carries its fields)
Bucket(ff, key) ==
    LET i == CHOOSE i \in 1..Len(ff) :
                 ff[i].Key = <<key>> /\ ff[i].Type = "ObjectMarshalerType"
    IN ff[i].Interface.v[1]

HasBucket(ff, key) ==
    \E i \in 1..Len(ff) : ff[i].Key = <<key>> /\ ff[i].Type = "ObjectMarshalerType"

\* The strings of the call's tag field: those of the first field under the
\* key tags, when it carries a string list
CallTags(fs) ==
    LET tagged == SelectSeq(fs, LAMBDA f : f.Key = FieldTags)
    IN IF Len(tagged) > 0 /\ tagged[1].Interface.t = "[]string"
       THEN tagged[1].Interface.v
       ELSE <<>>

\* The keys of a field list
Keys(ff) == [i \in 1..Len(ff) |-> ff[i].Key]

----------------------------------------------------------------------------
(* Claims on classification and assembly, under Spec *)

\* C1: deduplication by key within one log call. When several fields of the
\* call carry the same key only the first is processed: the final field list
\* (tags field and every bucket) is the one the call's fields give once the
\* later duplicates are removed.
C1_DuplicateKeysHaveNoEffect ==
    Assembled =>
        filteredFields = encodeFields(l, Surviving(fields), lvl).logFields

\* A call with the key foo twice, under two values, whose labels bucket holds
\* the first value only
C1_Witness ==
    /\ Assembled
    /\ \E i, j \in 1..Len(fields) :
          /\ i < j
          /\ fields[i] = zapString(<<"foo">>, "a")
          /\ fields[j] = zapString(<<"foo">>, "b")
    /\ Bucket(filteredFields, "labels") = <<zapString(<<"foo">>, "a")>>

C3_LabelsKeepFullKey ==
    Assembled =>
        Bucket(filteredFields, "labels") =
            SelectSeq(Surviving(fields),
                      LAMBDA f : f.Key /= FieldTags /\ Family(f.Key) = "labels")

\* C3, amended: a field whose key has no recognized prefix is in the labels
\* bucket under the part of its key after the final dot, the whole key when
\* it has no dot (custom.x under x, foo under foo).
C3_LabelsReduceKey ==
    Assembled =>
        Bucket(filteredFields, "labels") =
            Reduced(Surviving(fields),
                    LAMBDA f : f.Key /= FieldTags /\ Family(f.Key) = "labels")

\* A call with custom.x, found in the labels bucket under x
C3_Witness ==
    /\ Assembled
    /\ \E i \in 1..Len(fields) : fields[i] = zapString(<<"custom", "x">>, "c")
    /\ \E j \in 1..Len(Bucket(filteredFields, "labels")) :
          Bucket(filteredFields, "labels")[j] = zapString(<<"x">>, "c")

\* The strings of the tags field of a final list (none without the field)
MergedTags(ff) ==
    IF Len(ff) > 0 /\ ff[1].Key = FieldTags THEN ff[1].Interface.v ELSE <<>>

\* C4: tag merging. The merged tag list is the base tags in their order
\* followed by the strings of the call's tag field in their order, with no
\* deduplication of values.
C4_TagMerging ==
    Assembled => MergedTags(filteredFields) = l.baseTags \o CallTags(fields)

\* The tag a is a base tag and a call tag, and is twice in the merged list
C4_Witness ==
    /\ Assembled
    /\ l.baseTags = <<"a", "prod">>
    /\ CallTags(fields) = <<"a", "b">>
    /\ MergedTags(filteredFields) = <<"a", "prod", "a", "b">>

\* C5: the final list holds a tags field if and only if the merged tag list
\* (entryTags when the loop of encodeFields is over) is not empty, and that
\* field is then the first of the list.
C5_TagsFieldIffTags ==
    Assembled =>
        LET entryTags == classify(l, fields, lvl).entryTags
            at == {i \in 1..Len(filteredFields) : filteredFields[i].Key = FieldTags}
        IN /\ (at /= {}) <=> (entryTags /= <<>>)
           /\ at \subseteq {1}

\* No base tags and no tag field in the call: no tags field in the list
C5_Witness ==
    /\ Assembled
    /\ l.baseTags = <<>>
    /\ Len(fields) > 0
    /\ \A i \in 1..Len(fields) : fields[i].Key /= FieldTags
    /\ \A i \in 1..Len(filteredFields) : filteredFields[i].Key /= FieldTags

\* The tags field of a final list, if it has one
TagsKey(ff) == IF Len(ff) > 0 /\ ff[1].Key = FieldTags THEN <<FieldTags>> ELSE <<>>

\* C10 as stated: the final list is the tags field (when present), the base
\* labels, then the buckets in the order labels, log, http, event, error,
\* trace.
C10_LabelsBucketFirst ==
    Assembled =>
        Keys(filteredFields) =
            TagsKey(filteredFields) \o Keys(l.baseLabels)
            \o << <<"labels">>, <<"log">>, <<"http">>, <<"event">>, <<"error">>,
                  <<"trace">> >>

\* C10, amended: the final list is the tags field (when present), the base
\* labels, then the buckets in the order log, http, event, error, trace,
\* labels, each bucket as one field under that key.
C10_LabelsBucketLast ==
    Assembled =>
        /\ Keys(filteredFields) =
              TagsKey(filteredFields) \o Keys(l.baseLabels)
              \o << <<"log">>, <<"http">>, <<"event">>, <<"error">>, <<"trace">>,
                    <<"labels">> >>
        /\ SubSeq(filteredFields, Len(TagsKey(filteredFields)) + 1,
                  Len(TagsKey(filteredFields)) + Len(l.baseLabels)) = l.baseLabels

\* A list with the tags field, two base labels and the six buckets
C10_Witness ==
    /\ Assembled
    /\ filteredFields[1].Key = FieldTags
    /\ Len(l.baseLabels) = 2
    /\ Len(filteredFields) = 9
    /\ filteredFields[9].Key = FieldLabels
    /\ Len(Bucket(filteredFields, "labels")) > 0

----------------------------------------------------------------------------
(* Header redaction *)

\* The entries of the header maps, map after map
RECURSIVE Flat(_)
Flat(hs) == IF hs = <<>> THEN <<>> ELSE hs[1] \o Flat(Tail(hs))

\* The names the library treats as secret, in lower case
SecretNames == {"authorization", "x-authorization", "cookie", "x-san-iatx-user-pass"}

IsSecret(name) == Str(ToLower(name)) \in SecretNames

\* A header name and its values as one rendered entry
Rendered(name, values) == Str(name) \o "=" \o Join(values, ",")

\* C7: SanitizeHeaders renders every header whose lower-cased name is secret
\* as name=SECRET, whatever the case of the name, and never with the value it
\* was given; it renders every other header as name=values joined by commas
\* and leaves its values as they were.
C7_SecretHeadersRedacted ==
    pc = "returned" =>
        /\ Len(plainHeaders) = Len(Flat(val))
        /\ \A k \in 1..Len(Flat(val)) :
              LET given == Flat(val)[k]
              IN IF IsSecret(given.name)
                 THEN /\ plainHeaders[k] = Str(given.name) \o "=SECRET"
                      /\ plainHeaders[k] /= Rendered(given.name, given.values)
                 ELSE /\ plainHeaders[k] = Rendered(given.name, given.values)
                      /\ Flat(headers)[k] = given

\* SanitizeHeaders has rendered a secret header written in upper case, a
\* secret header written in mixed case and a multi-valued ordinary header.
C7_Witness ==
    /\ pc = "returned"
    /\ \E i, j, k \in 1..Len(Flat(val)) :
          /\ Str(Flat(val)[i].name) = "COOKIE"
          /\ Str(Flat(val)[j].name) = "Authorization"
          /\ Str(Flat(val)[k].name) = "X-Trace"
          /\ Len(Flat(val)[k].values) > 1
          /\ plainHeaders[i] = "COOKIE=SECRET"
          /\ plainHeaders[k] = "X-Trace=not,a,secret"

----------------------------------------------------------------------------
(* The HTTP document, under SpecHTTP *)

\* The serialized HTTP document of the final list: the value of its http field
HTTPDocument(ff) ==
    LET i == CHOOSE i \in 1..Len(ff) : ff[i].Key = HTTPBaseLevelKey
    IN ff[i].Interface.v

\* The surviving fields of the call that belong to the http family
HTTPFamily(fs) == SelectSeq(Surviving(fs), LAMBDA f : Family(f.Key) = "http")

\* Whether a field with one of the keys is among fs
Written(fs, keys) == \E i \in 1..Len(fs) : fs[i].Key \in keys

\* The string written for the leaf: "" when no field of fs has the key
Leaf(fs, key) ==
    LET sel == SelectSeq(fs, LAMBDA f : f.Key = key)
    IN IF sel = <<>> THEN "" ELSE getValueAsString(sel[Len(sel)])

\* A node of the document, present only when a leaf under it was written
Node(name, present, members) ==
    IF present THEN <<Quote(name) \o ":" \o JSONObject(members)>> ELSE <<>>

\* The document in which every node above a written leaf exists and no
\* other node does
LazyDocument(fs) ==
    LET requestBody ==
            Node("body",
                 Written(fs, {FieldHTTPRequestBodyContent, FieldHTTPRequestBodyHeaders}),
                 StringMember("content", Leaf(fs, FieldHTTPRequestBodyContent))
                 \o StringMember("headers", Leaf(fs, FieldHTTPRequestBodyHeaders)))
        responseBody ==
            Node("body",
                 Written(fs, {FieldHTTPResponseBodyContent, FieldHTTPResponseStatusCode}),
                 StringMember("content", Leaf(fs, FieldHTTPResponseBodyContent))
                 \o StringMember("status_code", Leaf(fs, FieldHTTPResponseStatusCode)))
        request ==
            Node("request",
                 Written(fs, {FieldHTTPRequestBodyContent, FieldHTTPRequestBodyHeaders,
                              FieldHTTPRequestMethod, FieldHTTPRequestReferrer}),
                 requestBody
                 \o StringMember("method", Leaf(fs, FieldHTTPRequestMethod))
                 \o StringMember("referrer", Leaf(fs, FieldHTTPRequestReferrer)))
        response ==
            Node("response",
                 Written(fs, {FieldHTTPResponseBodyContent, FieldHTTPResponseStatusCode,
                              FieldHTTPResponseBodyReferrer}),
                 responseBody
                 \o StringMember("referrer", Leaf(fs, FieldHTTPResponseBodyReferrer)))
    IN JSONObject(request \o response)

\* The call's only field of the http family is http.request.method = "POST".
OnlyMethodPOST ==
    /\ Assembled
    /\ Keys(HTTPFamily(fields)) = <<FieldHTTPRequestMethod>>
    /\ HTTPFamily(fields)[1].String = "POST"

\* C6: when the only HTTP field supplied is http.request.method = "POST" the
\* HTTP document is exactly {"request":{"method":"POST"}}, with no response
\* key and no body key under request; in general a body node appears under
\* request or response only when one of that body's leaves was written.
C6_BodyOnlyWhenLeafWritten ==
    /\ OnlyMethodPOST =>
          HTTPDocument(filteredFields) = "{\"request\":{\"method\":\"POST\"}}"
    /\ Assembled => HTTPDocument(filteredFields) = LazyDocument(HTTPFamily(fields))

\* The call's only HTTP field is http.request.method = "POST", and the
\* document the code serialized for it holds an empty body node under request.
C6_Witness ==
    /\ OnlyMethodPOST
    /\ HTTPDocument(filteredFields) = "{\"request\":{\"body\":{},\"method\":\"POST\"}}"

----------------------------------------------------------------------------
(* Values in the flat buckets, under SpecKinds *)

\* The sink has written the entry of the call.
EntryWritten == pc = "returned" /\ logger /= NoEntry

\* The top-level keys of the flat buckets
FlatBuckets == {"labels", "log", "event", "error", "trace"}

\* What the object sink was handed for the bucket under the top-level key:
\* the encoder calls made by the bucket's MarshalLogObject, and its error
Sunk(key) ==
    LET i == CHOOSE i \in 1..Len(logger.fields) :
                 /\ logger.fields[i].Key = <<key>>
                 /\ logger.fields[i].Type = "ObjectMarshalerType"
    IN [adds |-> logger.written[i].adds[1].val.v, err |-> logger.written[i].err]

\* The kinds whose value zap's constructors store in Field.Integer
IntegerKinds ==
    {"Int64Type", "Int32Type", "Int16Type", "Int8Type",
     "Uint64Type", "Uint32Type", "Uint16Type", "Uint8Type"}

\* The supported value kinds
SupportedKinds ==
    IntegerKinds \cup
    {"BoolType", "Float64Type", "Float32Type", "StringType", "DurationType",
     "TimeType", "TimeFullType", "BinaryType", "ByteStringType",
     "ArrayMarshalerType", "ErrorType", "ReflectType"}

\* The payload a field of a supported kind was built from, as a typed value:
\* a timestamp that UnixNano represents is the instant's UnixNano, an error
\* is its message.
Payload(f) ==
    CASE f.Type = "BoolType" -> [t |-> "bool", v |-> f.Integer = 1]
      [] f.Type = "Int64Type" -> [t |-> "int64", v |-> f.Integer]
      [] f.Type = "Int32Type" -> [t |-> "int32", v |-> f.Integer]
      [] f.Type = "Int16Type" -> [t |-> "int16", v |-> f.Integer]
      [] f.Type = "Int8Type" -> [t |-> "int8", v |-> f.Integer]
      [] f.Type = "Uint64Type" -> [t |-> "uint64", v |-> f.Integer]
      [] f.Type = "Uint32Type" -> [t |-> "uint32", v |-> f.Integer]
      [] f.Type = "Uint16Type" -> [t |-> "uint16", v |-> f.Integer]
      [] f.Type = "Uint8Type" -> [t |-> "uint8", v |-> f.Integer]
      [] f.Type = "Float64Type" -> [t |-> "float64", v |-> Float64frombits(f.Integer)]
      [] f.Type = "Float32Type" -> [t |-> "float32", v |-> Float32frombits(f.Integer)]
      [] f.Type = "StringType" -> [t |-> "string", v |-> f.String]
      [] f.Type = "DurationType" -> [t |-> "time.Duration", v |-> f.Integer]
      [] f.Type = "TimeType" -> [t |-> "int64", v |-> f.Integer]
      [] f.Type = "ArrayMarshalerType" -> [t |-> "[]string", v |-> f.Interface.v]
      [] f.Type = "ErrorType" -> [t |-> "string", v |-> f.Interface.v[1]]
      [] OTHER -> f.Interface

\* The sink was handed the value under the key of the field.
RoundTrips(f, adds) ==
    \E k \in 1..Len(adds) :
        /\ adds[k].key = f.Key
        /\ adds[k].val.t = Payload(f).t
        /\ adds[k].val.v = Payload(f).v

\* C8: a field of any supported value kind placed in a flat bucket is written
\* to the object sink as a contribution whose value equals the payload the
\* field was built from.
C8_ValueRoundTrip ==
    EntryWritten =>
        \A b \in FlatBuckets :
            \A i \in 1..Len(Bucket(filteredFields, b)) :
                Bucket(filteredFields, b)[i].Type \in SupportedKinds =>
                    RoundTrips(Bucket(filteredFields, b)[i], Sunk(b).adds)

\* The entry of a call with zap.Bool("bool_example", true) is written, and
\* the sink was handed the empty string under that key.
C8_Witness ==
    /\ EntryWritten
    /\ \E i \in 1..Len(Bucket(filteredFields, "labels")) :
          Bucket(filteredFields, "labels")[i] = zapBool(<<"bool_example">>, TRUE)
    /\ \E k \in 1..Len(Sunk("labels").adds) :
          Sunk("labels").adds[k] = Add("AddString", <<"bool_example">>, "string", "")

\* The kinds EncodeFieldInterface has a case with an encoder call for
EncodedKinds ==
    SupportedKinds \cup {"ObjectMarshalerType", "UintptrType", "StringerType"}

\* C9: a field of skip kind or of an unknown kind, with or without a payload,
\* adds no key and no value to the output of the bucket it is routed to, and
\* its encoding reports no error.
C9_SkipAddsNothing ==
    EntryWritten =>
        \A b \in FlatBuckets :
            \A i \in 1..Len(Bucket(filteredFields, b)) :
                Bucket(filteredFields, b)[i].Type \notin EncodedKinds =>
                    /\ \A k \in 1..Len(Sunk(b).adds) :
                          Sunk(b).adds[k].key /= Bucket(filteredFields, b)[i].Key
                    /\ Sunk(b).err = ""

\* The entry of a call with zap.Skip() is written, and the sink was handed
\* the empty string under the field's key.
C9_Witness ==
    /\ EntryWritten
    /\ \E i \in 1..Len(Bucket(filteredFields, "labels")) :
          Bucket(filteredFields, "labels")[i] = zapSkip
    /\ \E k \in 1..Len(Sunk("labels").adds) :
          Sunk("labels").adds[k] = Add("AddString", zapSkip.Key, "string", "")

----------------------------------------------------------------------------
(* Base labels and call fields, under SpecLabels *)

\* How many fields of fs carry the key
Occurrences(fs, key) == Len(SelectSeq(fs, LAMBDA f : f.Key = key))

\* A call field carries the key of a base label.
SharedKey(key) ==
    /\ \E i \in 1..Len(fields) : fields[i].Key = key
    /\ \E i \in 1..Len(l.baseLabels) : l.baseLabels[i].Key = key

\* C11: call fields and base labels are deduplicated jointly by key, call
\* fields first: when a call field and a base label carry the same key the
\* base label is discarded, and the key occurs exactly once in the final
\* list (the labels bucket included).
C11_JointDeduplication ==
    Assembled =>
        \A key \in {<<"application">>, <<"service">>} :
            SharedKey(key) =>
                /\ Occurrences(filteredFields, key) = 0
                /\ Occurrences(Bucket(filteredFields, "labels"), key) = 1

\* C11, amended: only the call fields are deduplicated. Every base label is
\* in the final list as configured whatever the call fields are, and a call
\* field with the key of a base label is bucketed as any other field, so the
\* key occurs once at the top of the list and once in the labels bucket.
C11_BaseLabelsNeverDeduplicated ==
    Assembled =>
        /\ SubSeq(filteredFields, Len(TagsKey(filteredFields)) + 1,
                  Len(TagsKey(filteredFields)) + Len(l.baseLabels)) = l.baseLabels
        /\ \A key \in {<<"application">>, <<"service">>} :
              SharedKey(key) =>
                  /\ Occurrences(filteredFields, key) = 1
                  /\ Occurrences(Bucket(filteredFields, "labels"), key) = 1

\* A call with application = "app2" on a logger whose base labels hold
\* application = "app": both are in the final list.
C11_Witness ==
    /\ Assembled
    /\ SharedKey(<<"application">>)
    /\ \E i \in 1..Len(filteredFields) :
          filteredFields[i] = zapString(FieldLabelApplication, "app")
    /\ \E i \in 1..Len(Bucket(filteredFields, "labels")) :
          Bucket(filteredFields, "labels")[i] = zapString(FieldLabelApplication, "app2")

----------------------------------------------------------------------------
(* The log bucket, under Spec *)

\* The name of the severity of the method called
SeverityName ==
    CASE lvl = "DebugLevel" -> "debug"
      [] lvl = "InfoLevel" -> "info"
      [] lvl = "WarnLevel" -> "warn"
      [] lvl = "ErrorLevel" -> "error"
      [] lvl = "PanicLevel" -> "panic"
      [] lvl = "FatalLevel" -> "fatal"

\* The surviving fields of the call that belong to the log family
LogFamily(fs) ==
    SelectSeq(Surviving(fs), LAMBDA f : f.Key /= FieldTags /\ Family(f.Key) = "log")

\* C12: whatever the caller's fields, the log bucket ends with exactly two
\* entries after all the user's log.* fields: the configured logger-identity
\* field under key logger, then a string field under key level holding the
\* name of the severity of the method called.
C12_LogBucketTail ==
    Assembled =>
        LET b == Bucket(filteredFields, "log")
            n == Len(b)
        IN /\ n = Len(LogFamily(fields)) + 2
           /\ \A i \in 1..(n - 2) :
                 b[i] = [LogFamily(fields)[i] EXCEPT
                            !.Key = <<LogFamily(fields)[i].Key[Len(LogFamily(fields)[i].Key)]>>]
           /\ b[n - 1] = [l.baseLoggerField EXCEPT !.Key = <<"logger">>]
           /\ b[n] = zapString(<<"level">>, SeverityName)

\* Warn was called with a log.origin field: the log bucket holds origin,
\* logger, level = "warn".
C12_Witness ==
    /\ Assembled
    /\ lvl = "WarnLevel"
    /\ Keys(Bucket(filteredFields, "log")) = << <<"origin">>, <<"logger">>, <<"level">> >>
    /\ Bucket(filteredFields, "log")[3].String = "warn"

----------------------------------------------------------------------------
(* Payloads that do not fit, under SpecMismatch *)

\* A string field as zap.String builds it
WellFormed(f) == f.Type = "StringType" /\ f.Interface = Nil

\* The first field of the call with the key tags carries a payload that is
\* not a string list, and every other field of the call is well formed.
TagMismatch ==
    /\ \E i \in 1..Len(fields) :
          /\ fields[i].Key = FieldTags
          /\ \A j \in 1..(i - 1) : fields[j].Key /= FieldTags
          /\ fields[i].Interface.t /= "[]string"
          /\ fields[i].Interface /= Nil \/ fields[i].String /= ""
    /\ \A i \in 1..Len(fields) : fields[i].Key = FieldTags \/ WellFormed(fields[i])

\* C13: when the first field with key tags carries a payload that is not a
\* string list, the tag set stays equal to the base tags, no error is raised,
\* and the log call completes and hands its record to the sink.
C13_TagMismatchSkipped ==
    (pc /= "ready" /\ TagMismatch) =>
        /\ pc = "returned"
        /\ logger /= NoEntry
        /\ MergedTags(filteredFields) = l.baseTags

\* Info was called with zap.Reflect("tags", 42) alone: the call panicked in
\* encodeFields and the sink received nothing.
C13_Witness ==
    /\ pc = "panicked"
    /\ fields = <<zapReflect(FieldTags, [t |-> "int", v |-> 42])>>
    /\ logger = NoEntry

\* The Go type the encoder expects in the Interface of a field of the kind
ExpectedType(kind) ==
    CASE kind = "BoolType" -> "bool"
      [] kind = "Int64Type" -> "int64"
      [] kind = "StringType" -> "string"
      [] kind = "DurationType" -> "time.Duration"
      [] OTHER -> ""

\* The declared kind of the field does not match the type of its payload.
Mismatched(f) ==
    /\ ExpectedType(f.Type) /= ""
    /\ f.Interface /= Nil
    /\ f.Interface.t /= ExpectedType(f.Type)

\* The call holds a field whose kind does not match its payload, and every
\* other field of the call is well formed.
KindMismatch ==
    /\ \E i \in 1..Len(fields) : Mismatched(fields[i])
    /\ \A i \in 1..Len(fields) : Mismatched(fields[i]) \/ WellFormed(fields[i])

\* C14: for a field whose declared kind does not match the type of its
\* payload (kind bool with a string payload), EncodeFieldInterface returns
\* without a panic and without a failure, and the log call completes.
C14_MismatchNeverFatal ==
    (pc /= "ready" /\ KindMismatch) =>
        /\ \A i \in 1..Len(fields) :
              Mismatched(fields[i]) =>
                  /\ ~EncodeFieldInterface(fields[i]).panicked
                  /\ EncodeFieldInterface(fields[i]).err = ""
        /\ pc = "returned"
        /\ logger /= NoEntry

\* Info was called with a field of kind bool carrying the string "yes": the
\* field was routed to the labels bucket, and the call panicked when the
\* sink's encoder ran the bucket's MarshalLogObject.
C14_Witness ==
    /\ pc = "panicked"
    /\ KindMismatch
    /\ \E i \in 1..Len(Bucket(filteredFields, "labels")) :
          /\ Bucket(filteredFields, "labels")[i].Type = "BoolType"
          /\ Bucket(filteredFields, "labels")[i].Interface = [t |-> "string", v |-> "yes"]
    /\ logger = NoEntry

\* The encoding of the field returns an error.
Fails(f) == ~IsNilValue(f.Interface) /\ EncodeFieldInterface(f).err /= ""

\* The sink's object for the bucket was handed something under the key.
Sank(b, key) == \E k \in 1..Len(Sunk(b).adds) : Sunk(b).adds[k].key = key

\* C15: when the encoding of one field of a flat bucket returns an error,
\* every other field of that bucket, before and after the failing one, is
\* still written to the bucket's object.
C15_DegradeOneFieldOnly ==
    EntryWritten =>
        \A b \in FlatBuckets :
            \A i, j \in 1..Len(Bucket(filteredFields, b)) :
                (Fails(Bucket(filteredFields, b)[i]) /\ ~Fails(Bucket(filteredFields, b)[j]))
                    => Sank(b, Bucket(filteredFields, b)[j].Key)

\* Info was called with a = "1", a channel under chan_example, b = "2": the
\* entry was written, the labels object reported the error and holds a only.
C15_Witness ==
    /\ EntryWritten
    /\ Keys(Bucket(filteredFields, "labels")) = << <<"a">>, <<"chan_example">>, <<"b">> >>
    /\ Sunk("labels").err /= ""
    /\ Sank("labels", <<"a">>)
    /\ ~Sank("labels", <<"b">>)

----------------------------------------------------------------------------
(* Runs of the HTTP encoder, under SpecRuns *)

\* C17: two runs of the HTTP encoder on equal inputs produce byte-identical
\* documents, also when the headers field carries a header collection with
\* several header names.
C17_HTTPDocumentDeterministic ==
    \A i, j \in 1..Len(runs) :
        runs[i].input = runs[j].input => runs[i].output = runs[j].output

\* Two runs on the one header map {X-Trace: [secret123], meh: [secret123]}
\* gave the entries in the two orders.
C17_Witness ==
    /\ Len(runs) = 2
    /\ runs[1].input = runs[2].input
    /\ runs[1].output =
          "{\"request\":{\"body\":{\"headers\":\"[X-Trace=secret123 meh=secret123]\"}}}"
    /\ runs[2].output =
          "{\"request\":{\"body\":{\"headers\":\"[meh=secret123 X-Trace=secret123]\"}}}"

----------------------------------------------------------------------------
(* Repeated calls, under SpecRepeat *)

\* C18: no step of any sequence of log calls changes the logger's
\* configuration (logger-identity field, base tags, base labels), and a
\* call made again with the same configuration, fields and severity builds
\* the same final field list as every time before.
C18_NoCrossCallState ==
    [][ /\ l' = l
        /\ \A i \in 1..Len(runs') :
              runs'[i].input = <<l', fields', lvl'>> => runs'[i].output = filteredFields'
      ]_vars

\* The call l.Info(msg, zap.Any("http.request.body.headers", headers)) with
\* Cookie and X-Trace in one header map was made twice on the same logger and
\* built two lists, which differ in the http entry.
C18_Witness ==
    /\ pc = "returned"
    /\ Len(runs) = 1
    /\ fields = <<HTTPFields[4]>>
    /\ runs[1].input = <<l, fields, lvl>>
    /\ Len(runs[1].output) = Len(filteredFields)
    /\ \A i \in 1..Len(filteredFields) :
          (runs[1].output[i] /= filteredFields[i]) <=> (filteredFields[i].Key = <<"http">>)

----------------------------------------------------------------------------
(* Calls at the same time, under SpecConcurrent *)

\* The lists goroutine p's call may build when it runs alone
Alone(p) ==
    { encodeFields(l, fs, "InfoLevel").logFields : fs \in RangedFields(procs[p].fields) }

\* C19: of two log calls running at the same time on the same logger, also
\* when both are given the same field values, neither writes a location the
\* other reads or writes, and each call's final field list is the one it
\* builds when run alone.
C19_ConcurrentCallsIndependent ==
    \A p, q \in 1..Len(procs) :
        p /= q =>
            /\ procs[p].writes \cap (procs[q].reads \cup procs[q].writes) = {}
            /\ procs[p].pc = "returned" => procs[p].filteredFields \in Alone(p)

\* Two calls given the same headers both returned, and both assigned to the
\* Cookie key of the first header map.
C19_Witness ==
    /\ Len(procs) = 2
    /\ procs[1].pc = "returned"
    /\ procs[2].pc = "returned"
    /\ procs[1].fields = procs[2].fields
    /\ <<1, <<"C", "o", "o", "k", "i", "e">>>> \in procs[1].writes \cap procs[2].writes

----------------------------------------------------------------------------
(* The six methods, under SpecSeverities *)

\* The list with the last entry of its log bucket, the level entry, holding
\* the name of the level
AtLevel(ff, level) ==
    [i \in 1..Len(ff) |->
        IF ff[i].Key = LogBaseLevelKey
        THEN [ff[i] EXCEPT !.Interface.v[1] =
                 [@ EXCEPT ![Len(@)] = zapString(<<"level">>, LevelString(level))]]
        ELSE ff[i]]

\* The lists Info builds for the fields (one, unless a header map of the
\* fields has several names)
InfoLists(fs) ==
    { encodeFields(l, ranged, "InfoLevel").logFields : ranged \in RangedFields(fs) }

\* C20: whichever of Debug, Info, Warn, Error, Panic and Fatal was called,
\* the final field list is a list Info builds for the same call fields but
\* for the value of the level entry of the log bucket, and the sink's method
\* of the same severity was called once with the message and that list.
C20_SeveritiesShareAssembly ==
    pc /= "ready" =>
        /\ lvl \in Levels
        /\ \E ff \in InfoLists(fields) : filteredFields = AtLevel(ff, lvl)
        /\ logger.level = lvl
        /\ logger.msg = msg
        /\ logger.fields = filteredFields
        /\ pc = CASE lvl = "PanicLevel" -> "panicked"
                  [] lvl = "FatalLevel" -> "exited"
                  [] OTHER -> "returned"

\* Fatal was called with another message and two fields on a logger with
\* base tags: the sink's Fatal got the message and the list, whose level
\* entry differs from the one of Info's list.
C20_Witness ==
    /\ pc = "exited"
    /\ lvl = "FatalLevel"
    /\ msg = "another message"
    /\ Len(fields) = 2
    /\ l.baseTags /= <<>>
    /\ logger.level = "FatalLevel"
    /\ logger.msg = "another message"
    /\ logger.fields = filteredFields
    /\ filteredFields \notin InfoLists(fields)
    /\ filteredFields \in { AtLevel(ff, "FatalLevel") : ff \in InfoLists(fields) }

----------------------------------------------------------------------------
(* Further claims on classification and assembly, under Spec *)

\* The fields of the call under the key tags, in call order
TagFields(fs) == SelectSeq(fs, LAMBDA f : f.Key = FieldTags)

\* The strings of the tag fields, one field after the other
RECURSIVE AllTags(_)
AllTags(tagged) ==
    IF tagged = <<>> THEN <<>>
    ELSE (IF tagged[1].Interface.t = "[]string" THEN tagged[1].Interface.v ELSE <<>>)
         \o AllTags(Tail(tagged))

\* C21 as stated: every field of the call under the key tags extends the tag
\* set; with two tag fields the strings of both are in the merged list, in
\* call order.
C21_EveryTagFieldExtends ==
    Assembled =>
        MergedTags(filteredFields) = l.baseTags \o AllTags(TagFields(fields))

\* C21: of the fields of a call under the key tags only the first extends
\* the tag set; with two tag fields in one call the merged tag list is the
\* base tags followed by the strings of the first, and the second is
\* discarded as a duplicate key.
C21_FirstTagFieldOnly ==
    Assembled /\ Len(TagFields(fields)) >= 2 =>
        /\ MergedTags(filteredFields) = l.baseTags \o AllTags(<<TagFields(fields)[1]>>)
        /\ \A i \in 1..Len(filteredFields) :
              filteredFields[i].Key = FieldTags => i = 1

\* ecs.Tags("c") then ecs.Tags("a", "b") in one call on a logger with base
\* tags: the merged list holds c and neither a nor b after the base tags.
C21_Witness ==
    /\ Assembled
    /\ l.baseTags = <<"a", "prod">>
    /\ Len(TagFields(fields)) = 2
    /\ TagFields(fields)[1] = ecsTags(<<"c">>)
    /\ TagFields(fields)[2] = ecsTags(<<"a", "b">>)
    /\ MergedTags(filteredFields) = <<"a", "prod", "c">>

----------------------------------------------------------------------------
(* Further claims on the HTTP document, under SpecHTTP *)

\* The four recognized request keys and the three recognized response keys
RequestKeys ==
    {FieldHTTPRequestBodyContent, FieldHTTPRequestBodyHeaders,
     FieldHTTPRequestMethod, FieldHTTPRequestReferrer}

ResponseKeys ==
    {FieldHTTPResponseBodyContent, FieldHTTPResponseStatusCode,
     FieldHTTPResponseBodyReferrer}

\* The document with a request member exactly when a request key is among
\* fs and a response member exactly when a response key is; a member whose
\* node was never allocated would be null.
TopLevelDocument(fs) ==
    LET target == MapFields(fs, HTTPMarshalObject)
        request == IF target.Request = <<>> THEN "null"
                   ELSE MarshalRequest(target.Request[1])
        response == IF target.Response = <<>> THEN "null"
                    ELSE MarshalResponse(target.Response[1])
    IN JSONObject((IF Written(fs, RequestKeys)
                   THEN <<Quote("request") \o ":" \o request>> ELSE <<>>)
                  \o (IF Written(fs, ResponseKeys)
                      THEN <<Quote("response") \o ":" \o response>> ELSE <<>>))

\* The documents whose request or response member is null
NullDocuments ==
    {"null", "{\"request\":null}", "{\"response\":null}",
     "{\"request\":null,\"response\":null}"}

\* C22: the serialized HTTP document has a request key if and only if the
\* HTTP bucket holds one of the four recognized request keys, and a response
\* key if and only if it holds one of the three recognized response keys;
\* with no recognized HTTP field the document is the empty object, and no
\* top-level member is ever null.
C22_LazyTopLevelNodes ==
    Assembled =>
        /\ \E fs \in RangedFields(fields) :
              HTTPDocument(filteredFields) = TopLevelDocument(HTTPFamily(fs))
        /\ ~Written(HTTPFamily(fields), RequestKeys \cup ResponseKeys) =>
              HTTPDocument(filteredFields) = "{}"
        /\ HTTPDocument(filteredFields) \notin NullDocuments

\* The call's HTTP fields are http.version and http.response.referrer: the
\* document has a response member and no request member.
C22_Witness ==
    /\ Assembled
    /\ Keys(HTTPFamily(fields)) = << <<"http", "version">>, FieldHTTPResponseBodyReferrer >>
    /\ HTTPDocument(filteredFields) = "{\"response\":{\"body\":{},\"referrer\":\"back\"}}"

\* A field whose key starts with http. and is none of the seven recognized
\* keys
Unrecognized(f) ==
    Family(f.Key) = "http" /\ f.Key \notin RequestKeys \cup ResponseKeys

\* C23: a field whose key starts with http. but is not one of the seven
\* recognized HTTP keys is ignored: the final field list (the HTTP document,
\* every bucket, every other entry) is a list the call builds without the
\* field.
C23_UnrecognizedHTTPIgnored ==
    Assembled /\ (\E i \in 1..Len(fields) : Unrecognized(fields[i])) =>
        \E fs \in RangedFields(SelectSeq(fields, LAMBDA f : ~Unrecognized(f))) :
            filteredFields = encodeFields(l, fs, lvl).logFields

\* http.version = "1.1" was given between a label field and the request
\* method: the document holds the method only and the labels bucket foo only.
C23_Witness ==
    /\ Assembled
    /\ Keys(fields) = << <<"foo">>, <<"http", "version">>, FieldHTTPRequestMethod >>
    /\ HTTPDocument(filteredFields) = "{\"request\":{\"body\":{},\"method\":\"POST\"}}"
    /\ Keys(Bucket(filteredFields, "labels")) = << <<"foo">> >>

----------------------------------------------------------------------------
(* The leaves of the HTTP document, under SpecLeaves *)

\* fmt.Sprintf("%v", x) for the payloads of the fields: an integer in
\* decimal, any other value as Sprint gives it
Rendering(x) ==
    IF x.t \in {"int64", "int32", "int16", "int8", "uint64", "uint32", "uint16", "uint8"}
    THEN ToString(x.v)
    ELSE Sprint(x)

\* The string the leaf of a recognized field is to hold: the field's
\* pre-rendered string when not empty, else the rendering of the payload the
\* caller put in the field, a list of header collections being redacted and
\* rendered as name=value entries first
Coerced(f) ==
    IF f.String /= "" THEN f.String
    ELSE IF Payload(f).t = "[]http.Header"
    THEN Sprint([t |-> "[]string", v |-> SanitizeHeaders(Payload(f).v).plainHeaders])
    ELSE Rendering(Payload(f))

\* A field under the key of f for which getValueAsString gives Coerced(f)
CoercedField(f) ==
    Field(f.Key, "ReflectType", 0, "", [t |-> "string", v |-> Coerced(f)])

\* C24: for each of the seven recognized HTTP fields the leaf holds the
\* field's pre-rendered string when that string is non-empty, and otherwise
\* the default string rendering of the field's typed payload, a list of
\* header collections being redacted and rendered as name=value entries.
C24_LeafCoercion ==
    Assembled =>
        \E fs \in RangedFields(fields) :
            HTTPDocument(filteredFields) =
                MarshalJSON([i \in 1..Len(HTTPFamily(fs)) |->
                                CoercedField(HTTPFamily(fs)[i])]).data

\* zap.Int64("http.response.status_code", 201) was the only field: the leaf
\* holds <nil>.
C24_Witness ==
    /\ Assembled
    /\ fields = <<zapInt64(FieldHTTPResponseStatusCode, 201)>>
    /\ HTTPDocument(filteredFields) = "{\"response\":{\"body\":{\"status_code\":\"<nil>\"}}}"

----------------------------------------------------------------------------
(* The buckets after classification, under SpecSeverities *)

\* The six buckets when the loop of encodeFields is over
Accumulators ==
    LET a == classify(l, fields, lvl).accums
    IN [log |-> a.logFieldsAccum, http |-> a.httpFieldsAccum,
        event |-> a.eventFieldsAccum, error |-> a.errorFieldsAccum,
        trace |-> a.traceFieldsAccum, labels |-> a.labelsFieldsAccum]

BucketNames == {"log", "http", "event", "error", "trace", "labels"}

\* The surviving fields of the call that are not tag fields, in call order
UserFields == SelectSeq(Surviving(fields), LAMBDA f : f.Key /= FieldTags)

\* The field is in the bucket of acc, under its key or its reduced key
InBucket(acc, b, f) ==
    \E k \in 1..Len(acc[b]) : acc[b][k] = f \/ acc[b][k] = reduceKey(f)

\* The number of entries of the buckets B of acc
RECURSIVE Held(_, _)
Held(acc, B) ==
    IF B = {} THEN 0
    ELSE LET b == CHOOSE b \in B : TRUE
         IN Len(acc[b]) + Held(acc, B \ {b})

\* C25: after classification every surviving field that is not a tag field
\* is in exactly one of the six buckets, a tag field is in none, within each
\* bucket the fields are in their arrival order in the call, and the buckets
\* hold as many fields as the call has distinct non-tag keys.
C25_BucketPartition ==
    Assembled =>
        LET acc == Accumulators
            user == UserFields
            of(b) == SelectSeq(user, LAMBDA f : InBucket(acc, b, f))
        IN /\ \A i \in 1..Len(user) :
                 Cardinality({b \in BucketNames : InBucket(acc, b, user[i])}) = 1
           /\ \A b \in BucketNames :
                 /\ \A k \in 1..Len(acc[b]) : acc[b][k].Key /= FieldTags
                 /\ acc[b] = [k \in 1..Len(of(b)) |->
                                 IF b = "http" THEN of(b)[k] ELSE reduceKey(of(b)[k])]
           /\ Held(acc, BucketNames) =
                 Cardinality({fields[i].Key : i \in 1..Len(fields)} \ {FieldTags})

\* The headers field and foo = "a" were given on a logger with base labels:
\* http holds the headers field under its full key, labels holds foo.
C25_Witness ==
    /\ Assembled
    /\ l.baseLabels /= <<>>
    /\ fields = <<HTTPFields[4], zapString(<<"foo">>, "a")>>
    /\ Accumulators["http"] = <<HTTPFields[4]>>
    /\ Keys(Accumulators["labels"]) = << <<"foo">> >>
    /\ Held(Accumulators, BucketNames) = 2

----------------------------------------------------------------------------
(* The caller's values after a call, under SpecConcurrent *)

\* C26: a log call leaves its inputs unchanged: when the call has returned,
\* the header collections carried by its http.request.body.headers field
\* hold the same contents as when the call was given them.
C26_InputsUnchanged ==
    Len(procs) = 1 /\ procs[1].pc = "returned" =>
        procs[1].fields = <<HeadersField>>

\* The one call made was given Cookie: secret123 and has returned: the
\* caller's header map now holds Cookie: SECRET.
C26_Witness ==
    /\ Len(procs) = 1
    /\ procs[1].pc = "returned"
    /\ procs[1].fields[1].Interface.v =
          << << [name |-> <<"C", "o", "o", "k", "i", "e">>, values |-> <<"secret123">>] >> >>
    /\ headers =
          << << [name |-> <<"C", "o", "o", "k", "i", "e">>, values |-> <<"SECRET">>] >> >>

----------------------------------------------------------------------------
(* Names inside a bucket, under SpecReduced *)

\* C27: for any call field list, the entries of each flat bucket handed to
\* the encoder (labels, log, event, error, trace) have pairwise distinct keys
\* after key reduction, the entries logger and level appended to the log
\* bucket included.
C27_UniqueNamesInBucket ==
    Assembled =>
        \A b \in FlatBuckets :
            \A i, j \in 1..Len(Bucket(filteredFields, b)) :
                i /= j => Bucket(filteredFields, b)[i].Key /= Bucket(filteredFields, b)[j].Key

\* log.level = "x" was the only field: the log bucket holds level, logger,
\* level.
C27_Witness ==
    /\ Assembled
    /\ fields = <<zapString(FieldLogLevel, "x")>>
    /\ Keys(Bucket(filteredFields, "log")) = << <<"level">>, <<"logger">>, <<"level">> >>

----------------------------------------------------------------------------
(* The shape of the final field list, under Spec *)

\* The six top-level keys of the buckets
TopLevelKeys ==
    {LogBaseLevelKey, HTTPBaseLevelKey, EventBaseLevelKey, ErrorBaseLevelKey,
     TraceBaseLevelKey, FieldLabels}

\* C28: the final field list of every call holds exactly one field for each
\* of the six top-level keys log, http, event, error, trace, labels, also
\* when the bucket is empty; its other fields, the tags field apart, are the
\* base labels as configured and in configured order; its length is the
\* number of base labels plus 6, plus 1 when the merged tag list is not
\* empty.
C28_FinalListShape ==
    Assembled =>
        /\ \A key \in TopLevelKeys :
              Cardinality({i \in 1..Len(filteredFields) : filteredFields[i].Key = key}) = 1
        /\ SelectSeq(filteredFields,
                     LAMBDA f : f.Key \notin TopLevelKeys \cup {FieldTags}) = l.baseLabels
        /\ Len(filteredFields) =
              Len(l.baseLabels) + 6
              + (IF classify(l, fields, lvl).entryTags /= <<>> THEN 1 ELSE 0)

\* A call with no field on a logger with base labels and no base tags: the
\* list holds the two base labels and six fields, five of them empty buckets.
C28_Witness ==
    /\ Assembled
    /\ fields = <<>>
    /\ l.baseTags = <<>>
    /\ Len(l.baseLabels) = 2
    /\ Len(filteredFields) = 8
    /\ \A b \in {"event", "error", "trace", "labels"} : Bucket(filteredFields, b) = <<>>
    /\ HTTPDocument(filteredFields) = "{}"

----------------------------------------------------------------------------
(* SetLevel, under SpecLevels *)

\* C29: SetLevel has no effect: for any level, SetLevel(level) leaves the
\* logger and its sink as they were, so a record of a severity reaches the
\* sink's output after the call exactly when it did before: when the sink
\* the logger was built with lets the severity through.
C29_SetLevelNoEffect ==
    /\ \A i \in 1..Len(runs) : runs[i].output = runs[i].input[1]
    /\ runs /= <<>> /\ pc = "returned" =>
          ((logger /= NoEntry) <=> Enabled(runs[1].input[1].logger, lvl))

\* SetLevel(ErrorLevel) then Info on a logger over a sink at debug level: the
\* info record is written.
C29_Witness ==
    /\ pc = "returned"
    /\ Len(runs) = 1
    /\ runs[1].input[2] = "ErrorLevel"
    /\ runs[1].input[1].logger = zapNew("DebugLevel")
    /\ lvl = "InfoLevel"
    /\ logger.level = "InfoLevel"

====
